---- MODULE Spec2Model ----
(***************************************************************************)
(* Model of the RAG pipeline of nextjs-rag-pinecone.                       *)
(*                                                                         *)
(* Part 1: DataProcessor (lib/rag/data-processor.ts): cleanText,           *)
(* processDocument(s), chunkDocument (one loop iteration per step),        *)
(* chunkDocuments and processAndChunk.                                     *)
(*                                                                         *)
(* Part 2: PineconeService.indexDocuments and embedTexts                   *)
(* (lib/rag/pinecone-service.ts): one step per request issued to, and per  *)
(* answer received from, the embedding service and the vector index; the   *)
(* same for Indexer.indexDocuments over Embedder.embedTexts, which sends   *)
(* the texts of a batch together, and for indexDocument, deleteDocuments   *)
(* and deleteAll of both classes.                                          *)
(*                                                                         *)
(* Part 3: GeminiProvider's conversation store (lib/llm/gemini.ts) and     *)
(* Assistant.ask / askWithHistory / search (lib/rag/assistant.ts): one     *)
(* step per stretch of code between two awaits, so that calls may overlap. *)
(*                                                                         *)
(* Part 4: the RAG facade (lib/rag-system.ts: constructor, initialize,     *)
(* addDocuments, indexChunks, ask, search, deleteDocuments, deleteAll,     *)
(* getStats, clearHistory, getHistory), which works with Embedder, Indexer *)
(* and the Assistant built on them, and initializeIndex /                  *)
(* waitForIndexReady: one step per answer of listIndexes, createIndex,     *)
(* describeIndexStats and the timer.                                       *)
(*                                                                         *)
(* Text is a sequence of UTF-16 code units (naturals).  Positions in the   *)
(* operators that mirror JavaScript string methods are 0-based, as in the  *)
(* source; TLA+ sequences are 1-based, so s[i + 1] is the unit at i.       *)
(***************************************************************************)
EXTENDS Integers, Sequences, FiniteSets, TLC

(***************************************************************************)
(* Bounds of the model.                                                    *)
(***************************************************************************)
\* longest document content given to chunkDocument in Spec
MaxLen == 6
\* largest configured chunkSize / chunkOverlap in Spec
MaxChunkSize == 5
MaxOverlap == 1
\* longest raw text given to cleanText in SpecClean
MaxRawLen == 5
\* SpecBatch: number of documents, their content length, largest overlap
\* (chunk sizes run from 1 to MaxDocLen)
MaxDocs == 2
MaxDocLen == 2
MaxBatchOverlap == 1
\* SpecIndex: most records handed to indexDocuments (three batches)
MaxRecords == 201
\* most operations of the Assistant started in a behaviour
MaxCalls == 2
\* most matches the vector index answers a query with
MaxMatches == 2
\* SpecSnap: length of the content (chunk sizes are one and two below it)
MaxSnapLen == 8
\* initializeIndex calls made in a behaviour
MaxInitCalls == 2
\* longest describeIndexStats request, in poll intervals
MaxCheckTicks == 1
\* largest value given for an option of the RAG configuration
MaxConfigValue == 2
\* SpecWords: length of the content (the chunk sizes are the odd numbers
\* one to three below it)
MaxWordsLen == 8
\* SpecOverlap: longest content and largest overlap
MaxOverlapLen == 4
MaxDeepOverlap == 2

\* Iterations of the chunking loop that are followed.  With a cursor that
\* moves forward by at least one unit per iteration a document of n units is
\* chunked in at most n iterations, so every run that ends, ends below it.
MaxChunks == MaxLen + 1

(***************************************************************************)
(* Characters.                                                             *)
(***************************************************************************)
CharA == 65
CharSpace == 32
CharPeriod == 46
CharNewline == 10
CharNul == 0
CharTab == 9

\* /\s/ of a JavaScript regular expression, which is also what
\* String.prototype.trim removes (WhiteSpace and LineTerminator).
WhiteSpace ==
    {9, 10, 11, 12, 13, 32, 160, 5760, 8232, 8233, 8239, 8287, 12288, 65279}
        \cup (8192..8202)

IsWhiteSpace(c) == c \in WhiteSpace

\* the character class [\x00-\x1F\x7F-\x9F]
IsControl(c) == c \in (0..31) \cup (127..159)

ChunkAlphabet == {CharA, CharSpace, CharPeriod, CharNewline}
WordAlphabet == {CharA, CharSpace, CharTab}
CleanAlphabet == {CharA, CharSpace, CharNewline, CharNul}
BatchAlphabet == {CharA, CharSpace}

\* all texts over alphabet A of length at most n
Texts(A, n) == UNION {[1..k -> A] : k \in 0..n}

(***************************************************************************)
(* JavaScript built-ins used by the source.                                *)
(***************************************************************************)
Min(a, b) == IF a <= b THEN a ELSE b
Max(a, b) == IF a >= b THEN a ELSE b

SetMax(S) == CHOOSE x \in S : \A y \in S : y <= x

\* String.prototype.substring(a, b): both arguments are clamped to
\* [0, length] and swapped when a > b.
substring(s, a, b) ==
    LET ca == Max(0, Min(a, Len(s)))
        cb == Max(0, Min(b, Len(s)))
    IN  SubSeq(s, Min(ca, cb) + 1, Max(ca, cb))

\* String.prototype.lastIndexOf(pat): the last 0-based position at which
\* pat occurs, -1 when it does not occur.
lastIndexOf(s, pat) ==
    LET hits == {i \in 0..(Len(s) - Len(pat)) :
                    SubSeq(s, i + 1, i + Len(pat)) = pat}
    IN  IF hits = {} THEN -1 ELSE SetMax(hits)

\* String.prototype.trim()
trim(s) ==
    LET keep == {i \in 1..Len(s) : ~IsWhiteSpace(s[i])}
    IN  IF keep = {} THEN <<>>
        ELSE SubSeq(s, CHOOSE i \in keep : \A j \in keep : i <= j, SetMax(keep))

\* number of leading white space units trim removes from s
LeadingTrimmed(s) ==
    LET keep == {i \in 1..Len(s) : ~IsWhiteSpace(s[i])}
    IN  IF keep = {} THEN Len(s)
        ELSE (CHOOSE i \in keep : \A j \in keep : i <= j) - 1

\* text.replace(/\s+/g, ' '): every maximal run of white space becomes one
\* space.
RECURSIVE CollapseWhiteSpace(_)
CollapseWhiteSpace(s) ==
    IF s = <<>> THEN <<>>
    ELSE IF IsWhiteSpace(Head(s))
         THEN IF Len(s) >= 2 /\ IsWhiteSpace(s[2])
              THEN CollapseWhiteSpace(Tail(s))
              ELSE <<CharSpace>> \o CollapseWhiteSpace(Tail(s))
         ELSE <<Head(s)>> \o CollapseWhiteSpace(Tail(s))

\* cleaned.replace(/[\x00-\x1F\x7F-\x9F]/g, '')
RemoveControl(s) == SelectSeq(s, LAMBDA c : ~IsControl(c))

(***************************************************************************)
(* DataProcessor.cleanText and processDocument(s).                         *)
(***************************************************************************)
cleanText(text) == RemoveControl(trim(CollapseWhiteSpace(text)))

processDocument(document) ==
    [document EXCEPT !.content = cleanText(document.content)]

processDocuments(documents) ==
    [i \in 1..Len(documents) |-> processDocument(documents[i])]

(***************************************************************************)
(* State.  docs, chunkSize and chunkOverlap are the inputs; di, startIndex,*)
(* chunkIndex, chunks and allChunks are the locals of chunkDocuments and   *)
(* chunkDocument; pc is the position in processAndChunk / chunkDocuments / *)
(* chunkDocument.  windows and returned are history variables: windows has *)
(* one entry per loop iteration of the current chunkDocument call (the     *)
(* cursor, the candidate window and the text cut from it, before trim),    *)
(* returned has the list each finished chunkDocument call returned.        *)
(***************************************************************************)
VARIABLES docs, chunkSize, chunkOverlap, pc, di, startIndex, chunkIndex,
          chunks, allChunks, windows, returned

\* The operation running on the vector store (indexDocuments, indexDocument,
\* deleteDocuments, deleteAll): its argument, its position, its locals, the
\* request or requests it is awaiting, the remote namespace, the external
\* calls it has issued and what it gave back to its caller
VARIABLES toIndex, ipc, embI, allEmbeddings, vectors, upI, pending, remote,
          ilog, iresult

\* GeminiProvider.conversationHistory and the calls of the Assistant that
\* are in flight: position, arguments, retrieved sources, external calls
\* issued and outcome of each; the rest records what the callers observed
VARIABLES conversationHistory, cpc, call, sources, trace, outcome, snapshot,
          lastGet, ncalls, askReplies

\* The RAG facade: the configuration it was constructed with, its position,
\* and the k the Assistant was constructed with (this.topK).  The index of
\* the vector service and the initializeIndex calls: whether the index is
\* listed, the createIndex requests issued, and per caller the position, the
\* time since waitForIndexReady started (ms), the readiness checks made,
\* what listIndexes and the last describeIndexStats answered and what the
\* call gave back; ninit counts the calls.
VARIABLES config, rpc, thisTopK, indexExists, creates, xpc, elapsed, nchecks,
          listed, answered, xout, ninit

chunkerVars == <<docs, chunkSize, chunkOverlap, pc, di, startIndex,
                 chunkIndex, chunks, allChunks, windows, returned>>

indexVars == <<toIndex, ipc, embI, allEmbeddings, vectors, upI, pending,
               remote, ilog, iresult>>

convVars == <<conversationHistory, cpc, call, sources, trace, outcome,
              snapshot, lastGet, ncalls, askReplies>>

setupVars == <<config, rpc, thisTopK, indexExists, creates, xpc, elapsed,
               nchecks, listed, answered, xout, ninit>>

vars == <<chunkerVars, indexVars, convVars, setupVars>>

(***************************************************************************)
(* DataProcessor.chunkDocument, one definition per statement group.        *)
(***************************************************************************)
\* mutant: the window is one unit too long
EndIndex_OffByOne(content, start, size) == Min(start + size + 1, Len(content))

\* const endIndex = Math.min(startIndex + this.chunkSize, content.length)
EndIndex(content, start, size) == Min(start + size, Len(content))

\* mutant: the window is cut before the sentence boundary, not after it
SnapToBoundary_BeforeBoundary(chunk, size) ==
    LET lastPeriod == lastIndexOf(chunk, <<CharPeriod, CharSpace>>)
        lastNewline == lastIndexOf(chunk, <<CharNewline>>)
        breakPoint == Max(lastPeriod, lastNewline)
        lastSpace == lastIndexOf(chunk, <<CharSpace>>)
    IN  IF 2 * breakPoint > size
        THEN substring(chunk, 0, breakPoint)
        ELSE IF 2 * lastSpace > size
             THEN substring(chunk, 0, lastSpace)
             ELSE chunk

\* the body of `if (endIndex < content.length)`: cut the window after the
\* last sentence boundary, else before the last space, when that lies past
\* half the chunk size (a real-number comparison: b > size / 2).
SnapToBoundary(chunk, size) ==
    LET lastPeriod == lastIndexOf(chunk, <<CharPeriod, CharSpace>>)
        lastNewline == lastIndexOf(chunk, <<CharNewline>>)
        breakPoint == Max(lastPeriod, lastNewline)
        lastSpace == lastIndexOf(chunk, <<CharSpace>>)
    IN  IF 2 * breakPoint > size
        THEN substring(chunk, 0, breakPoint + 1)
        ELSE IF 2 * lastSpace > size
             THEN substring(chunk, 0, lastSpace)
             ELSE chunk

\* the value of `chunk` when it is pushed: the window, cut at a boundary
\* unless the window reaches the end of the content
CutChunk(content, start, size) ==
    LET endIndex == EndIndex(content, start, size)
        chunk == substring(content, start, endIndex)
    IN  IF endIndex < Len(content) THEN SnapToBoundary(chunk, size) ELSE chunk

\* `${document.id}_chunk_${chunkIndex}`
ChunkId(documentId, index) == documentId \o "_chunk_" \o ToString(index)

\* the object pushed onto chunks
MakeChunk(document, chunk, index) ==
    [id |-> ChunkId(document.id, index),
     content |-> trim(chunk),
     metadata |-> [base |-> document.metadata,
                   originalDocId |-> document.id,
                   chunkIndex |-> index,
                   totalChunks |-> 0],
     chunkIndex |-> index,
     originalDocId |-> document.id]

\* mutant: the loop also runs with the cursor at the end of the content
LoopContinues_AtEnd(start, content) == start <= Len(content)

\* while (startIndex < content.length)
LoopContinues(start, content) == start < Len(content)

\* mutant: the cursor advances by the window size, whatever was cut from it
NextStart_WholeWindow(start, chunk, overlap) == start + chunkSize - overlap

\* startIndex += chunk.length - this.chunkOverlap
NextStart(start, chunk, overlap) == start + Len(chunk) - overlap

\* mutant: the increment is missing
NextChunkIndex_NoIncrement(index) == index

\* chunkIndex++
NextChunkIndex(index) == index + 1

\* mutant: the placeholder is never replaced
UpdateTotalChunks_Skipped(list) == list

\* chunks.forEach((chunk) => { chunk.metadata.totalChunks = chunks.length })
UpdateTotalChunks(list) ==
    [i \in 1..Len(list) |->
        [list[i] EXCEPT !.metadata.totalChunks = Len(list)]]

\* mutant: the chunks of a document are put in front (unshift)
PushAll_Prepend(all, list) == list \o all

\* allChunks.push(...chunks)
PushAll(all, list) == all \o list

(***************************************************************************)
(* Actions.                                                                *)
(***************************************************************************)
\* processAndChunk: const processed = this.processDocuments(documents)
ProcessDocuments ==
    /\ pc = "process"
    /\ docs' = processDocuments(docs)
    /\ pc' = "forEach"
    /\ UNCHANGED <<chunkSize, chunkOverlap, di, startIndex, chunkIndex,
                   chunks, allChunks, windows, returned>>
    /\ UNCHANGED <<indexVars, convVars, setupVars>>

\* chunkDocuments takes the next document and chunkDocument starts on it
ChunkDocumentEnter ==
    /\ pc = "forEach"
    /\ di <= Len(docs)
    /\ startIndex' = 0
    /\ chunkIndex' = 0
    /\ chunks' = <<>>
    /\ windows' = <<>>
    /\ pc' = "loop"
    /\ UNCHANGED <<docs, chunkSize, chunkOverlap, di, allChunks, returned>>
    /\ UNCHANGED <<indexVars, convVars, setupVars>>

\* one iteration of `while (startIndex < content.length)`
ChunkLoop ==
    /\ pc = "loop"
    /\ LoopContinues(startIndex, docs[di].content)
    /\ Len(chunks) < MaxChunks
    /\ LET content == docs[di].content
           endIndex == EndIndex(content, startIndex, chunkSize)
           chunk == CutChunk(content, startIndex, chunkSize)
       IN  /\ chunks' = Append(chunks, MakeChunk(docs[di], chunk, chunkIndex))
           /\ windows' = Append(windows,
                                [start |-> startIndex,
                                 window |-> substring(content, startIndex, endIndex),
                                 raw |-> chunk])
           /\ startIndex' = NextStart(startIndex, chunk, chunkOverlap)
           /\ chunkIndex' = NextChunkIndex(chunkIndex)
    /\ UNCHANGED <<docs, chunkSize, chunkOverlap, pc, di, allChunks, returned>>
    /\ UNCHANGED <<indexVars, convVars, setupVars>>

\* the loop is left: totalChunks is filled in, the list is returned and
\* chunkDocuments pushes it onto allChunks
ChunkDocumentReturn ==
    /\ pc = "loop"
    /\ ~LoopContinues(startIndex, docs[di].content)
    /\ chunks' = UpdateTotalChunks(chunks)
    /\ allChunks' = PushAll(allChunks, chunks')
    /\ returned' = Append(returned, chunks')
    /\ di' = di + 1
    /\ pc' = "forEach"
    /\ UNCHANGED <<docs, chunkSize, chunkOverlap, startIndex, chunkIndex,
                   windows>>
    /\ UNCHANGED <<indexVars, convVars, setupVars>>

\* documents.forEach is over: return allChunks
ChunkDocumentsReturn ==
    /\ pc = "forEach"
    /\ di > Len(docs)
    /\ pc' = "done"
    /\ UNCHANGED <<docs, chunkSize, chunkOverlap, di, startIndex, chunkIndex,
                   chunks, allChunks, windows, returned>>
    /\ UNCHANGED <<indexVars, convVars, setupVars>>

(***************************************************************************)
(* Values shared by the services.                                          *)
(***************************************************************************)
\* an optional value: a missing argument, property or Map entry (also null)
\* is Undefined, a present one is Some(value)
Undefined == [def |-> FALSE]

Some(x) == [def |-> TRUE, val |-> x]

\* mutant: a rejected call is answered with an empty result
Thrown_Swallowed(e) == [status |-> "ok", answer |-> "", sources |-> <<>>]

\* an awaited call rejects with e and nothing catches it: the operation
\* rejects with e
Thrown(e) == [status |-> "error", error |-> e]

(***************************************************************************)
(* PineconeService.indexDocuments and embedTexts.  The embedding service   *)
(* and the vector index are external: a request is issued by one action    *)
(* and answered by another, with success or with an error.                 *)
(***************************************************************************)
\* const batchSize = 100 (upsert)
UpsertBatchSize == 100

\* const batchSize = 96 (embedding)
EmbedBatchSize == 96

\* the errors an external service may throw
Errors == {"E1", "E2"}

\* throw new Error('No embedding data returned from Pinecone')
NoDataError == "No embedding data returned from Pinecone"

\* throw new Error('No embedding values returned from Pinecone')
NoValuesError == "No embedding values returned from Pinecone"

\* no request is awaited
NoRequest == [svc |-> "none"]

\* how the log shows a request that was answered but whose answer made the
\* caller throw
AnsweredWithout == (NoDataError :> "nodata") @@ (NoValuesError :> "novalues")

\* the statuses of a request that made its caller throw
FailStatuses == {"error", "nodata", "novalues"}

\* Array.prototype.slice(a, b) for 0 <= a <= b
slice(s, a, b) == SubSeq(s, a + 1, Min(b, Len(s)))

\* the embeddings the service may answer with: a dense embedding, one whose
\* values are empty, one whose values are null, and a sparse embedding,
\* which has no property 'values'
EmbedShapes == {"dense", "empty", "null", "sparse"}

\* one entry of result.data
Embedding(shape, text) ==
    CASE shape = "dense" -> [values |-> Some(<<"vec", text>>)]
      [] shape = "empty" -> [values |-> Some(<<>>)]
      [] shape = "null" -> [values |-> Undefined]
      [] OTHER -> [sparseValues |-> <<1>>, sparseIndices |-> <<0>>]

\* result.data of the embedding service: one embedding per text
EmbedData(texts, shape) ==
    [k \in 1..Len(texts) |-> Embedding(shape, texts[k])]

\* 'values' in emb ? emb.values : []
ValuesOf(emb) ==
    IF "values" \in DOMAIN emb THEN emb.values ELSE Some(<<>>)

\* values || []
OrNoValues(values) == IF values.def THEN values.val ELSE <<>>

\* result.data.map((emb) => ({values: values || [],
\*                            dimension: values?.length || 0}))
BatchEmbeddings(data) ==
    [k \in 1..Len(data) |->
        LET values == OrNoValues(ValuesOf(data[k]))
        IN  [values |-> values, dimension |-> Len(values)]]

\* embedText on result.data: the error it throws when there is no first
\* embedding or when that has no values, "none" when it throws nothing
EmbedTextError(data) ==
    IF ~data.def \/ Len(data.val) = 0
    THEN NoDataError
    ELSE IF Len(OrNoValues(ValuesOf(data.val[1]))) = 0
         THEN NoValuesError
         ELSE "none"

\* embedText on result.data: the first embedding, or the error thrown
EmbedTextResult(data) ==
    IF EmbedTextError(data) # "none"
    THEN Thrown(EmbedTextError(data))
    ELSE LET values == OrNoValues(ValuesOf(data.val[1]))
         IN  [status |-> "ok", values |-> values, dimension |-> Len(values)]

\* documents.map((doc) => doc.content)
ContentsOf(documents) == [k \in 1..Len(documents) |-> documents[k].content]

\* documents.map((doc, idx) => ({id, values, metadata: {...doc.metadata, content}}))
MakeVectors(documents, embeddings) ==
    [k \in 1..Len(documents) |->
        [id |-> documents[k].id,
         values |-> embeddings[k].values,
         metadata |-> [base |-> documents[k].metadata,
                       content |-> documents[k].content]]]

\* mutant: a batch takes one text more than the batch size
EmbedBatchOf_OneMore(texts, i) == slice(texts, i, i + EmbedBatchSize + 1)

\* texts.slice(i, i + batchSize)
EmbedBatchOf(texts, i) == slice(texts, i, i + EmbedBatchSize)

\* mutant: a batch takes one record more than the batch size
UpsertBatchOf_OneMore(vecs, i) == slice(vecs, i, i + UpsertBatchSize + 1)

\* vectors.slice(i, i + batchSize)
UpsertBatchOf(vecs, i) == slice(vecs, i, i + UpsertBatchSize)

\* the ids of a list of records
IdsOf(records) == [k \in 1..Len(records) |-> records[k].id]

\* the namespace after upsert(batch): records are inserted or replaced by
\* id, in the order of the batch, so the last record of an id is the one kept
Upserted(ns, batch) ==
    {r \in ns : \A k \in 1..Len(batch) : batch[k].id # r.id}
        \cup {batch[k] : k \in {j \in 1..Len(batch) :
                                   \A m \in j + 1..Len(batch) :
                                       batch[m].id # batch[j].id}}

\* no operation is running on the namespace, which holds the records ns
IndexAt(ns) ==
    /\ toIndex = <<>>
    /\ ipc = "idle"
    /\ embI = 0
    /\ allEmbeddings = <<>>
    /\ vectors = <<>>
    /\ upI = 0
    /\ pending = NoRequest
    /\ remote = ns
    /\ ilog = <<>>
    /\ iresult = [status |-> "none"]

\* no indexDocuments call has been made
IndexIdle == IndexAt({})

\* the last entry of ilog gets the outcome of the request
Answered(log, status) == [log EXCEPT ![Len(log)].status = status]

\* the last entry of ilog gets the error the request threw
Failed(log, e) ==
    [log EXCEPT ![Len(log)].status = "error", ![Len(log)].error = e]

\* the upsert loop is entered at i, or left when i is past the last record
UpsertLoopAt(i, vecs) ==
    IF i < Len(vecs)
    THEN /\ ipc' = "upsert"
         /\ iresult' = iresult
    ELSE /\ ipc' = "done"
         /\ iresult' = [status |-> "ok"]

\* indexDocuments(documents): if (documents.length === 0) return; otherwise
\* embedTexts starts with i = 0
IndexDocumentsEnter ==
    /\ ipc = "call"
    /\ IF Len(toIndex) = 0
       THEN /\ ipc' = "done"
            /\ iresult' = [status |-> "ok"]
       ELSE /\ ipc' = "embed"
            /\ iresult' = iresult
    /\ embI' = 0
    /\ allEmbeddings' = <<>>
    /\ UNCHANGED <<toIndex, vectors, upI, pending, remote, ilog>>
    /\ UNCHANGED <<chunkerVars, convVars, setupVars>>

\* embedTexts: await this.pinecone.inference.embed(model, batch, ...)
EmbedIssue ==
    /\ rpc = "none"
    /\ ipc = "embed"
    /\ pending = NoRequest
    /\ embI < Len(toIndex)
    /\ LET batch == EmbedBatchOf(ContentsOf(toIndex), embI)
       IN  /\ pending' = [svc |-> "embed", texts |-> batch]
           /\ ilog' = Append(ilog, [svc |-> "embed", from |-> embI,
                                    items |-> batch, status |-> "pending",
                                    error |-> "none"])
    /\ UNCHANGED <<toIndex, ipc, embI, allEmbeddings, vectors, upI, remote,
                   iresult>>
    /\ UNCHANGED <<chunkerVars, convVars, setupVars>>

\* the embedding request is answered with data: the embeddings are pushed,
\* i += batchSize; after the last batch the vectors are built and the upsert
\* loop starts
EmbedReturn ==
    /\ ipc = "embed"
    /\ pending.svc = "embed"
    /\ \E shape \in EmbedShapes :
       LET all == allEmbeddings
                      \o BatchEmbeddings(EmbedData(pending.texts, shape))
           i == embI + EmbedBatchSize
       IN  /\ allEmbeddings' = all
           /\ embI' = i
           /\ IF i < Len(toIndex)
              THEN /\ vectors' = vectors
                   /\ upI' = upI
                   /\ ipc' = ipc
                   /\ iresult' = iresult
              ELSE /\ vectors' = MakeVectors(toIndex, all)
                   /\ upI' = 0
                   /\ UpsertLoopAt(0, vectors')
    /\ pending' = NoRequest
    /\ ilog' = Answered(ilog, "ok")
    /\ UNCHANGED <<toIndex, remote>>
    /\ UNCHANGED <<chunkerVars, convVars, setupVars>>

\* the embedding request throws, or is answered without data: the error
\* leaves embedTexts and indexDocuments
EmbedFail ==
    /\ ipc = "embed"
    /\ pending.svc = "embed"
    /\ \E e \in Errors \cup {NoDataError} :
          /\ iresult' = Thrown(e)
          /\ ilog' = IF e = NoDataError
                     THEN Answered(ilog, "nodata")
                     ELSE Failed(ilog, e)
    /\ ipc' = "failed"
    /\ pending' = NoRequest
    /\ UNCHANGED <<toIndex, embI, allEmbeddings, vectors, upI, remote>>
    /\ UNCHANGED <<chunkerVars, convVars, setupVars>>

\* await index.namespace(...).upsert(batch)
UpsertIssue ==
    /\ ipc = "upsert"
    /\ pending = NoRequest
    /\ upI < Len(vectors)
    /\ LET batch == UpsertBatchOf(vectors, upI)
       IN  /\ pending' = [svc |-> "upsert", batch |-> batch]
           /\ ilog' = Append(ilog, [svc |-> "upsert", from |-> upI,
                                    items |-> IdsOf(batch),
                                    status |-> "pending", error |-> "none"])
    /\ UNCHANGED <<toIndex, ipc, embI, allEmbeddings, vectors, upI, remote,
                   iresult>>
    /\ UNCHANGED <<chunkerVars, convVars, setupVars>>

\* the upsert is done: i += batchSize and the loop goes on or is left
UpsertReturn ==
    /\ ipc = "upsert"
    /\ pending.svc = "upsert"
    /\ remote' = Upserted(remote, pending.batch)
    /\ upI' = upI + UpsertBatchSize
    /\ UpsertLoopAt(upI', vectors)
    /\ pending' = NoRequest
    /\ ilog' = Answered(ilog, "ok")
    /\ UNCHANGED <<toIndex, embI, allEmbeddings, vectors>>
    /\ UNCHANGED <<chunkerVars, convVars, setupVars>>

\* the upsert throws: the error leaves indexDocuments
UpsertFail ==
    /\ ipc = "upsert"
    /\ pending.svc = "upsert"
    /\ \E e \in Errors :
          /\ iresult' = Thrown(e)
          /\ ilog' = Failed(ilog, e)
    /\ ipc' = "failed"
    /\ pending' = NoRequest
    /\ UNCHANGED <<toIndex, embI, allEmbeddings, vectors, upI, remote>>
    /\ UNCHANGED <<chunkerVars, convVars, setupVars>>

IndexDocuments ==
    \/ IndexDocumentsEnter
    \/ EmbedIssue
    \/ EmbedReturn
    \/ EmbedFail
    \/ UpsertIssue
    \/ UpsertReturn
    \/ UpsertFail

(***************************************************************************)
(* Indexer.indexDocuments embeds through Embedder.embedTexts: the texts of *)
(* a batch are sent one request each, all of them outstanding together     *)
(* under Promise.all, which resolves when every request has resolved and   *)
(* rejects with the first rejection, the other requests still outstanding. *)
(* The object in use is the Indexer when rpc = "ready".                    *)
(***************************************************************************)
\* const batchSize = 100 (Embedder.embedTexts)
EmbedderBatchSize == 100

\* texts.slice(i, i + batchSize)
EmbedderBatchOf(texts, i) == slice(texts, i, i + EmbedderBatchSize)

\* result.embedding.values of embedContent: dense or empty
ContentShapes == {"dense", "empty"}

\* Embedder.embedText: { values, dimension: values.length }
EmbedderEmbedding(values) ==
    [status |-> "ok", values |-> values, dimension |-> Len(values)]

\* the place in ilog of request k of the batch outstanding
LogIndex(k) == Len(ilog) - Len(pending.texts) + k

\* the requests outstanding once request k is answered
StillOpen(k) ==
    IF pending.open = {k} THEN NoRequest
    ELSE [pending EXCEPT !.open = pending.open \ {k}]

\* batch.map((text) => this.embedText(text)): every embedText runs up to
\* its await model.embedContent(text)
EmbedAllIssue ==
    /\ rpc = "ready"
    /\ ipc = "embed"
    /\ pending = NoRequest
    /\ embI < Len(toIndex)
    /\ LET batch == EmbedderBatchOf(ContentsOf(toIndex), embI)
       IN  /\ pending' = [svc |-> "embedContent", texts |-> batch,
                          open |-> 1..Len(batch),
                          got |-> [k \in 1..Len(batch) |-> <<>>]]
           /\ ilog' = ilog \o
                  [k \in 1..Len(batch) |->
                      [svc |-> "embedContent", from |-> embI + k - 1,
                       items |-> <<batch[k]>>, status |-> "pending",
                       error |-> "none"]]
    /\ UNCHANGED <<toIndex, ipc, embI, allEmbeddings, vectors, upI, remote,
                   iresult>>
    /\ UNCHANGED <<chunkerVars, convVars, setupVars>>

\* request k is answered: its embedText resolves; with the last one
\* Promise.all resolves, the embeddings are pushed, i += batchSize, and
\* after the last batch the vectors are built and the upsert loop starts.
\* An answer that comes after Promise.all rejected is dropped.
EmbedContentReturn(k) ==
    /\ ipc \in {"embed", "failed"}
    /\ pending.svc = "embedContent"
    /\ k \in pending.open
    /\ ilog' = [ilog EXCEPT ![LogIndex(k)].status = "ok"]
    /\ IF ipc = "failed"
       THEN /\ pending' = StillOpen(k)
            /\ UNCHANGED <<ipc, embI, allEmbeddings, vectors, upI, iresult>>
       ELSE \E shape \in ContentShapes :
            LET values == Embedding(shape, pending.texts[k]).values.val
                got == [pending.got EXCEPT ![k] = EmbedderEmbedding(values)]
                all == allEmbeddings \o
                           [j \in 1..Len(got) |->
                               [values |-> got[j].values,
                                dimension |-> got[j].dimension]]
                i == embI + EmbedderBatchSize
            IN  IF pending.open # {k}
                THEN /\ pending' = [pending EXCEPT !.open = @ \ {k},
                                                   !.got = got]
                     /\ UNCHANGED <<ipc, embI, allEmbeddings, vectors, upI,
                                    iresult>>
                ELSE /\ pending' = NoRequest
                     /\ allEmbeddings' = all
                     /\ embI' = i
                     /\ IF i < Len(toIndex)
                        THEN /\ vectors' = vectors
                             /\ upI' = upI
                             /\ ipc' = ipc
                             /\ iresult' = iresult
                        ELSE /\ vectors' = MakeVectors(toIndex, all)
                             /\ upI' = 0
                             /\ UpsertLoopAt(0, vectors')
    /\ UNCHANGED <<toIndex, remote>>
    /\ UNCHANGED <<chunkerVars, convVars, setupVars>>

\* request k throws: its embedText rejects; the first rejection rejects
\* Promise.all, embedTexts and indexDocuments, a later one is dropped
EmbedContentFail(k) ==
    /\ ipc \in {"embed", "failed"}
    /\ pending.svc = "embedContent"
    /\ k \in pending.open
    /\ \E e \in Errors :
          /\ ilog' = [ilog EXCEPT ![LogIndex(k)].status = "error",
                                  ![LogIndex(k)].error = e]
          /\ iresult' = IF ipc = "failed" THEN iresult ELSE Thrown(e)
    /\ ipc' = "failed"
    /\ pending' = StillOpen(k)
    /\ UNCHANGED <<toIndex, embI, allEmbeddings, vectors, upI, remote>>
    /\ UNCHANGED <<chunkerVars, convVars, setupVars>>

\* Embedder.embedTexts under Indexer.indexDocuments
EmbedderEmbedTexts ==
    \/ EmbedAllIssue
    \/ \E k \in 1..EmbedderBatchSize :
          \/ EmbedContentReturn(k)
          \/ EmbedContentFail(k)

(***************************************************************************)
(* indexDocument, deleteDocuments and deleteAll, of PineconeService and    *)
(* of Indexer alike: each is called on an object that has no operation     *)
(* running and starts with its first request.                              *)
(***************************************************************************)
\* the namespace after deleteMany(ids)
Deleted(ns, ids) == {r \in ns : \A k \in 1..Len(ids) : ids[k] # r.id}

\* the vector record indexDocument builds
MakeVector(document, values) ==
    [id |-> document.id,
     values |-> values,
     metadata |-> [base |-> document.metadata, content |-> document.content]]

\* the answers of the embedding service to embedText(text): result.data of
\* inference.embed, or the embedding of embedContent
EmbedAnswers(text) ==
    IF rpc = "none"
    THEN {Undefined} \cup
         {Some(EmbedData(<<text>>, shape)) : shape \in EmbedShapes}
    ELSE {Some(EmbedData(<<text>>, shape)) : shape \in ContentShapes}

\* the error embedText throws on an answer: PineconeService.embedText
\* checks the answer, Embedder.embedText does not
EmbedTextThrows(data) == IF rpc = "none" THEN EmbedTextError(data) ELSE "none"

\* the values of the embedding embedText returns
EmbedTextValues(data) ==
    IF rpc = "none"
    THEN EmbedTextResult(data).values
    ELSE EmbedderEmbedding(data.val[1].values.val).values

\* a request is issued by an operation that has issued none so far
FirstRequest(svc, items) ==
    /\ ilog' = Append(ilog, [svc |-> svc, from |-> 0, items |-> items,
                             status |-> "pending", error |-> "none"])
    /\ embI' = 0
    /\ allEmbeddings' = <<>>
    /\ upI' = 0
    /\ UNCHANGED <<remote, iresult>>
    /\ UNCHANGED <<chunkerVars, convVars, setupVars>>

\* indexDocument(document): await embedText(document.content)
IndexDocumentIssue(document) ==
    /\ rpc \in {"none", "ready"}
    /\ ipc = "idle"
    /\ ipc' = "embedOne"
    /\ toIndex' = <<document>>
    /\ vectors' = <<>>
    /\ pending' = [svc |-> IF rpc = "none" THEN "embed" ELSE "embedContent",
                   texts |-> <<document.content>>]
    /\ FirstRequest(pending'.svc, pending'.texts)

\* the embedding request is answered: embedText returns the embedding and
\* the vector is upserted, or embedText throws
IndexDocumentEmbedReturn ==
    /\ ipc = "embedOne"
    /\ \E data \in EmbedAnswers(toIndex[1].content) :
          IF EmbedTextThrows(data) = "none"
          THEN /\ vectors' = <<MakeVector(toIndex[1], EmbedTextValues(data))>>
               /\ ipc' = "upsertOne"
               /\ pending' = [svc |-> "upsert", batch |-> vectors']
               /\ ilog' = Append(Answered(ilog, "ok"),
                                 [svc |-> "upsert", from |-> 0,
                                  items |-> IdsOf(vectors'),
                                  status |-> "pending", error |-> "none"])
               /\ iresult' = iresult
          ELSE /\ vectors' = vectors
               /\ ipc' = "failed"
               /\ pending' = NoRequest
               /\ ilog' = Answered(ilog, AnsweredWithout[EmbedTextThrows(data)])
               /\ iresult' = Thrown(EmbedTextThrows(data))
    /\ UNCHANGED <<toIndex, embI, allEmbeddings, upI, remote>>
    /\ UNCHANGED <<chunkerVars, convVars, setupVars>>

\* the request of indexDocument, deleteDocuments, deleteAll or getStats
\* throws: the error leaves the operation
StoreRequestFail ==
    /\ ipc \in {"embedOne", "upsertOne", "delete", "deleteAll", "stats"}
    /\ \E e \in Errors :
          /\ iresult' = Thrown(e)
          /\ ilog' = Failed(ilog, e)
    /\ ipc' = "failed"
    /\ pending' = NoRequest
    /\ UNCHANGED <<toIndex, embI, allEmbeddings, vectors, upI, remote>>
    /\ UNCHANGED <<chunkerVars, convVars, setupVars>>

\* the last request of the operation is done: the operation returns
StoreRequestReturn(ns) ==
    /\ remote' = ns
    /\ ipc' = "done"
    /\ iresult' = [status |-> "ok"]
    /\ pending' = NoRequest
    /\ ilog' = Answered(ilog, "ok")
    /\ UNCHANGED <<toIndex, embI, allEmbeddings, vectors, upI>>
    /\ UNCHANGED <<chunkerVars, convVars, setupVars>>

\* indexDocument: upsert([vector]) is done
IndexDocumentUpsertReturn ==
    /\ ipc = "upsertOne"
    /\ StoreRequestReturn(Upserted(remote, pending.batch))

\* deleteDocuments(ids): await index.namespace(...).deleteMany(ids)
DeleteDocumentsIssue(ids) ==
    /\ rpc \in {"none", "ready"}
    /\ ipc = "idle"
    /\ ipc' = "delete"
    /\ pending' = [svc |-> "deleteMany", ids |-> ids]
    /\ UNCHANGED <<toIndex, vectors>>
    /\ FirstRequest("deleteMany", ids)

\* deleteMany is done
DeleteDocumentsReturn ==
    /\ ipc = "delete"
    /\ StoreRequestReturn(Deleted(remote, pending.ids))

\* deleteAll(): await index.namespace(...).deleteAll()
DeleteAllIssue ==
    /\ rpc \in {"none", "ready"}
    /\ ipc = "idle"
    /\ ipc' = "deleteAll"
    /\ pending' = [svc |-> "deleteAll"]
    /\ UNCHANGED <<toIndex, vectors>>
    /\ FirstRequest("deleteAll", <<>>)

\* deleteAll is done
DeleteAllReturn ==
    /\ ipc = "deleteAll"
    /\ StoreRequestReturn({})

\* the continuations of indexDocument, deleteDocuments and deleteAll
StoreStep ==
    \/ IndexDocumentEmbedReturn
    \/ IndexDocumentUpsertReturn
    \/ DeleteDocumentsReturn
    \/ DeleteAllReturn
    \/ StoreRequestFail

(***************************************************************************)
(* GeminiProvider's conversation store and the Assistant built on it.      *)
(* Optional arguments and Map entries are Undefined or Some(value).        *)
(***************************************************************************)
\* the callers that may have a call of the Assistant in flight
Procs == {"p1", "p2"}

\* the strings used as conversation identifiers
Keys == {"", "A", "B"}

\* a Map also takes the value undefined as a key
UndefinedKey == "undefined"

MapKeys == Keys \cup {UndefinedKey}

\* the key a conversationId argument stands for
KeyOf(conversationId) ==
    IF conversationId.def THEN conversationId.val ELSE UndefinedKey

\* constructor(pineconeService, llmProvider, topK: number = 5)
DefaultTopK == 5

\* the texts the generation service may answer with
Replies == {"r1", "r2"}

Questions == {"q1", "q2"}

\* the conversationId arguments of a call: none, or one of the strings
ConvIdArgs(keys) == {Undefined} \cup {Some(k) : k \in keys}

\* the topK arguments of a call: none, 0 or 1
TopKArgs == {Undefined, Some(0), Some(1)}

Message(role, content) == [role |-> role, content |-> content]

\* the message lists a caller hands to askWithHistory
MessageLists ==
    {<<>>,
     <<Message("user", "hello"), Message("assistant", "hi"),
       Message("user", "q1")>>}

\* if (conversationId): undefined and the empty string are falsy
Truthy(conversationId) == conversationId.def /\ conversationId.val # ""

\* mutant: the history is kept whether or not an identifier was given
StoresHistory_Always(conversationId) == TRUE

\* if (conversationId) { ... history ... } else { ... stateless ... }
StoresHistory(conversationId) == Truthy(conversationId)


\* topK || this.topK: undefined and 0 are falsy
OrConfigured(topK, configured) ==
    IF topK.def /\ topK.val # 0 THEN topK.val ELSE configured

\* this.conversationHistory.get(conversationId) || []
OrEmpty(entry) == IF entry.def THEN entry.val ELSE <<>>

\* mutant: a call waits for the call in flight on its identifier (a lock
\* per conversation): its user turn is stored only when no turn is pending
addToHistory_Locked(map, conversationId, message) ==
    IF /\ message.role = "user"
       /\ OrEmpty(map[conversationId]) # <<>>
       /\ OrEmpty(map[conversationId])[Len(OrEmpty(map[conversationId]))].role = "user"
    THEN map
    ELSE [map EXCEPT ![conversationId] =
             Some(Append(OrEmpty(map[conversationId]), message))]

\* mutant: the stored list is replaced by the new message
addToHistory_Overwrite(map, conversationId, message) ==
    [map EXCEPT ![conversationId] = Some(<<message>>)]

\* mutant: every conversation is kept under one key
addToHistory_OneLog(map, conversationId, message) ==
    [map EXCEPT !["A"] = Some(Append(OrEmpty(map["A"]), message))]

\* addToHistory: get(id) || [], push(message), set(id, history)
addToHistory(map, conversationId, message) ==
    [map EXCEPT ![conversationId] =
        Some(Append(OrEmpty(map[conversationId]), message))]

\* this.conversationHistory.set(conversationId, [...messages])
setHistory(map, conversationId, messages) ==
    [map EXCEPT ![conversationId] = Some(messages)]

\* mutant: nothing is deleted
clearHistory_Keep(map, conversationId) == map

\* clearHistory: this.conversationHistory.delete(conversationId)
clearHistory(map, conversationId) == [map EXCEPT ![conversationId] = Undefined]

\* getHistory: this.conversationHistory.get(conversationId) || []
getHistory(map, conversationId) == OrEmpty(map[conversationId])

\* history.slice(0, -1)
AllButLast(s) == IF s = <<>> THEN <<>> ELSE SubSeq(s, 1, Len(s) - 1)

\* .map((msg) => ({role: msg.role === 'assistant' ? 'model' : 'user', parts}))
ToGemini(history) ==
    [k \in 1..Len(history) |->
        [role |-> IF history[k].role = "assistant" THEN "model" ELSE "user",
         text |-> history[k].content]]

\* the ranked matches of the vector index, best first; a match may come
\* without score, without metadata or without metadata.content
Match(k) ==
    [id |-> "c" \o ToString(k),
     score |-> IF k % 3 = 2 THEN Undefined ELSE Some(10 - k),
     metadata |-> IF k % 3 = 2 THEN Undefined
                  ELSE Some([content |-> IF k % 3 = 0 THEN Undefined
                                         ELSE Some("text" \o ToString(k))])]

\* PineconeService.query: (queryResponse.matches || []).map(...)
ServiceMatches(matches) ==
    [k \in 1..Len(matches) |->
        [id |-> matches[k].id,
         score |-> IF matches[k].score.def /\ matches[k].score.val # 0
                   THEN matches[k].score.val ELSE 0,
         metadata |-> matches[k].metadata]]

\* match.metadata?.content || ''
ContentOf(metadata) ==
    IF metadata.def /\ metadata.val.content.def /\ metadata.val.content.val # ""
    THEN metadata.val.content.val ELSE ""

\* the object {}: metadata without content
EmptyObject == [content |-> Undefined]

\* match.metadata || {}
OrEmptyObject(metadata) == IF metadata.def THEN metadata.val ELSE EmptyObject

\* mutant: the results come out in reverse order
FormatResults_Reversed(matches) ==
    [k \in 1..Len(matches) |->
        [id |-> matches[Len(matches) + 1 - k].id,
         score |-> matches[Len(matches) + 1 - k].score,
         content |-> ContentOf(matches[Len(matches) + 1 - k].metadata),
         metadata |-> OrEmptyObject(matches[Len(matches) + 1 - k].metadata)]]

\* Assistant.query: matches.map((match) => ({id, score || 0, content, metadata}))
FormatResults(matches) ==
    [k \in 1..Len(matches) |->
        [id |-> matches[k].id,
         score |-> matches[k].score,
         content |-> ContentOf(matches[k].metadata),
         metadata |-> OrEmptyObject(matches[k].metadata)]]

RECURSIVE Join(_, _)
\* Array.prototype.join(separator) on strings
Join(strings, separator) ==
    IF strings = <<>> THEN ""
    ELSE IF Len(strings) = 1 THEN strings[1]
    ELSE strings[1] \o separator \o Join(Tail(strings), separator)

\* sources.map((source, idx) => `[Source ${idx + 1}] ${source.content}`).join('\n\n')
Context(srcs) ==
    Join([k \in 1..Len(srcs) |->
             "[Source " \o ToString(k) \o "] " \o srcs[k].content], "\n\n")

\* Assistant.buildPrompt
buildPrompt(question, context) ==
    "You are a helpful assistant. Answer the following question based on the provided context. If the answer cannot be found in the context, say so.\n\nContext:\n"
        \o context \o "\n\nQuestion: " \o question \o "\n\nAnswer:"

\* askWithHistory: systemMessage
SystemMessage(context) ==
    Message("system",
            "You are a helpful assistant. Answer questions based on the following context:\n\n"
                \o context
                \o "\n\nIf the answer cannot be found in the context, say so.")

NoCall == [op |-> "none"]

\* no call of the Assistant has been made, nothing is stored
ConvIdle ==
    /\ conversationHistory = [k \in MapKeys |-> Undefined]
    /\ cpc = [p \in Procs |-> "idle"]
    /\ call = [p \in Procs |-> NoCall]
    /\ sources = [p \in Procs |-> <<>>]
    /\ trace = [p \in Procs |-> <<>>]
    /\ outcome = [p \in Procs |-> [status |-> "none"]]
    /\ snapshot = [p \in Procs |-> [k \in MapKeys |-> Undefined]]
    /\ lastGet = [op |-> "none"]
    /\ ncalls = 0
    /\ askReplies = [k \in MapKeys |-> [valid |-> TRUE, replies |-> <<>>]]

\* a call of p is awaiting an external service
InFlight(p) == cpc[p] \in {"embedText", "query", "generate"}

\* the last entry of the trace of p gets the outcome of the request
Settled(p, status) == [trace[p] EXCEPT ![Len(trace[p])].status = status]

\* the last entry of the trace of p gets the error the request threw
Rejected(p, e) ==
    [trace[p] EXCEPT ![Len(trace[p])].status = "error",
                     ![Len(trace[p])].error = e]

\* what the callers have seen of ask calls alone: the replies returned for a
\* key since its history was last absent, as long as nothing but successful
\* ask calls touched the key
NoteOther(c) ==
    IF c.conversationId.def
    THEN [askReplies EXCEPT ![c.conversationId.val].valid = FALSE]
    ELSE askReplies

NoteReply(c, reply) ==
    IF c.conversationId.def /\ c.op = "ask"
    THEN [askReplies EXCEPT ![c.conversationId.val].replies = Append(@, reply)]
    ELSE askReplies

\* ask, askWithHistory and search all begin with this.query(question, topK),
\* which calls pineconeService.query, which awaits embedText(queryText)
StartCall(p, c) ==
    /\ ncalls < MaxCalls
    /\ ~InFlight(p)
    /\ call' = [call EXCEPT ![p] =
                  [op |-> c.op, question |-> c.question,
                   conversationId |-> c.conversationId, topK |-> c.topK,
                   messages |-> c.messages, seq |-> ncalls + 1]]
    /\ cpc' = [cpc EXCEPT ![p] = "embedText"]
    /\ sources' = [sources EXCEPT ![p] = <<>>]
    /\ trace' = [trace EXCEPT ![p] =
                    <<[svc |-> "embed", arg |-> c.question, status |-> "pending",
                       error |-> "none"]>>]
    /\ outcome' = [outcome EXCEPT ![p] = [status |-> "pending"]]
    /\ snapshot' = [snapshot EXCEPT ![p] = conversationHistory]
    /\ ncalls' = ncalls + 1
    /\ askReplies' = IF c.op = "askWithHistory" THEN NoteOther(c) ELSE askReplies
    /\ UNCHANGED <<conversationHistory, lastGet>>
    /\ UNCHANGED <<chunkerVars, indexVars, setupVars>>

\* ask(question, conversationId?, topK?)
Ask(p, qs, ids, ks) ==
    \E q \in qs, id \in ids, k \in ks :
        StartCall(p, [op |-> "ask", question |-> q, conversationId |-> id,
                      topK |-> k, messages |-> <<>>])

\* askWithHistory(question, messages, conversationId?, topK?)
AskWithHistory(p, qs, ids, ks) ==
    \E q \in qs, ms \in MessageLists, id \in ids, k \in ks :
        StartCall(p, [op |-> "askWithHistory", question |-> q,
                      conversationId |-> id, topK |-> k, messages |-> ms])

\* search(queryText, topK?)
Search(p, qs, ks) ==
    \E q \in qs, k \in ks :
        StartCall(p, [op |-> "search", question |-> q,
                      conversationId |-> Undefined, topK |-> k,
                      messages |-> <<>>])

\* the call of p rejects with e
Reject(p, e) ==
    /\ cpc' = [cpc EXCEPT ![p] = "failed"]
    /\ outcome' = [outcome EXCEPT ![p] = Thrown(e)]
    /\ trace' = [trace EXCEPT ![p] =
                    IF e \in DOMAIN AnsweredWithout
                    THEN Settled(p, AnsweredWithout[e])
                    ELSE Rejected(p, e)]
    /\ askReplies' = NoteOther(call[p])
    /\ UNCHANGED <<conversationHistory, call, sources, snapshot, lastGet, ncalls>>
    /\ UNCHANGED <<chunkerVars, indexVars, setupVars>>

\* PineconeService.query: embedText returned, the index is queried with
\* topK || this.topK
EmbedTextReturn(p) ==
    /\ cpc[p] = "embedText"
    /\ cpc' = [cpc EXCEPT ![p] = "query"]
    /\ trace' = [trace EXCEPT ![p] =
                    Append(Settled(p, "ok"),
                           [svc |-> "query",
                            arg |-> OrConfigured(call[p].topK, thisTopK),
                            status |-> "pending", error |-> "none"])]
    /\ UNCHANGED <<conversationHistory, call, sources, outcome, snapshot,
                   lastGet, ncalls, askReplies>>
    /\ UNCHANGED <<chunkerVars, indexVars, setupVars>>

\* the embedding request throws; PineconeService.embedText also throws when
\* the answer has no data or its first embedding has no values, while
\* Embedder.embedText, which the Assistant of the RAG facade calls, returns
\* result.embedding.values as they are
EmbedTextFail(p) ==
    /\ cpc[p] = "embedText"
    /\ \E e \in Errors \cup
                 (IF rpc = "none"
                  THEN {EmbedTextError(Undefined)} \cup
                       {EmbedTextError(
                            Some(EmbedData(<<call[p].question>>, shape))) :
                                shape \in EmbedShapes \ {"dense"}}
                  ELSE {}) :
          Reject(p, e)

\* generateResponse(prompt, conversationId) up to its await
GenerateResponseIssue(p, srcs) ==
    LET id == call[p].conversationId
        prompt == buildPrompt(call[p].question, Context(srcs))
        stored == addToHistory(conversationHistory, KeyOf(id),
                               Message("user", prompt))
    IN  IF StoresHistory(id)
        THEN /\ conversationHistory' = stored
             /\ trace' = [trace EXCEPT ![p] =
                    Append(Settled(p, "ok"),
                           [svc |-> "generate",
                            arg |-> [history |-> Some(ToGemini(AllButLast(
                                                 getHistory(stored, KeyOf(id))))),
                                     message |-> prompt],
                            status |-> "pending", error |-> "none"])]
        ELSE /\ conversationHistory' = conversationHistory
             /\ trace' = [trace EXCEPT ![p] =
                    Append(Settled(p, "ok"),
                           [svc |-> "generate",
                            arg |-> [history |-> Undefined, message |-> prompt],
                            status |-> "pending", error |-> "none"])]

\* generateResponseWithHistory(allMessages, conversationId) up to its await
GenerateResponseWithHistoryIssue(p, srcs) ==
    LET id == call[p].conversationId
        allMessages == <<SystemMessage(Context(srcs))>> \o call[p].messages
        lastMessage == allMessages[Len(allMessages)]
    IN  /\ conversationHistory' =
              IF StoresHistory(id)
              THEN setHistory(conversationHistory, KeyOf(id), allMessages)
              ELSE conversationHistory
        /\ trace' = [trace EXCEPT ![p] =
              Append(Settled(p, "ok"),
                     [svc |-> "generate",
                      arg |-> [history |-> Some(ToGemini(AllButLast(allMessages))),
                               message |-> lastMessage.content],
                      status |-> "pending", error |-> "none"])]

\* the index answers with at most topK matches, best first: query formats
\* them; search returns them, ask and askWithHistory build the context and
\* call the generation service
QueryReturn(p) ==
    /\ cpc[p] = "query"
    /\ \E n \in 0..Min(trace[p][Len(trace[p])].arg, MaxMatches) :
          LET matches == [k \in 1..n |-> Match(k)]
              srcs == FormatResults(ServiceMatches(matches))
          IN  /\ sources' = [sources EXCEPT ![p] = srcs]
              /\ IF call[p].op = "search"
                 THEN /\ cpc' = [cpc EXCEPT ![p] = "returned"]
                      /\ outcome' = [outcome EXCEPT ![p] =
                                        [status |-> "ok", sources |-> srcs]]
                      /\ trace' = [trace EXCEPT ![p] = Settled(p, "ok")]
                      /\ conversationHistory' = conversationHistory
                 ELSE /\ cpc' = [cpc EXCEPT ![p] = "generate"]
                      /\ outcome' = outcome
                      /\ IF call[p].op = "ask"
                         THEN GenerateResponseIssue(p, srcs)
                         ELSE GenerateResponseWithHistoryIssue(p, srcs)
    /\ UNCHANGED <<call, snapshot, lastGet, ncalls, askReplies>>
    /\ UNCHANGED <<chunkerVars, indexVars, setupVars>>

\* the query of the index throws
QueryFail(p) ==
    /\ cpc[p] = "query"
    /\ \E e \in Errors : Reject(p, e)

\* the generation service answers: with an identifier the reply is added to
\* the history; the call returns {answer, sources, conversationId}
GenerateReturn(p) ==
    /\ cpc[p] = "generate"
    /\ \E reply \in Replies :
          /\ conversationHistory' =
                IF StoresHistory(call[p].conversationId)
                THEN addToHistory(conversationHistory,
                                  KeyOf(call[p].conversationId),
                                  Message("assistant", reply))
                ELSE conversationHistory
          /\ outcome' = [outcome EXCEPT ![p] =
                            [status |-> "ok", answer |-> reply,
                             sources |-> sources[p],
                             conversationId |-> call[p].conversationId]]
          /\ askReplies' = NoteReply(call[p], reply)
    /\ cpc' = [cpc EXCEPT ![p] = "returned"]
    /\ trace' = [trace EXCEPT ![p] = Settled(p, "ok")]
    /\ UNCHANGED <<call, sources, snapshot, lastGet, ncalls>>
    /\ UNCHANGED <<chunkerVars, indexVars, setupVars>>

\* the generation service throws
GenerateFail(p) ==
    /\ cpc[p] = "generate"
    /\ \E e \in Errors : Reject(p, e)

\* Assistant.clearHistory(conversationId)
ClearHistory(id) ==
    /\ ncalls < MaxCalls
    /\ ncalls' = ncalls + 1
    /\ conversationHistory' = clearHistory(conversationHistory, id)
    /\ lastGet' = [op |-> "clearHistory", id |-> id]
    /\ askReplies' = [askReplies EXCEPT ![id] = [valid |-> TRUE, replies |-> <<>>]]
    /\ UNCHANGED <<cpc, call, sources, trace, outcome, snapshot>>
    /\ UNCHANGED <<chunkerVars, indexVars, setupVars>>

\* Assistant.getHistory(conversationId)
GetHistory(id) ==
    /\ ncalls < MaxCalls
    /\ ncalls' = ncalls + 1
    /\ lastGet' = [op |-> "getHistory", id |-> id,
                   result |-> getHistory(conversationHistory, id)]
    /\ UNCHANGED <<conversationHistory, cpc, call, sources, trace, outcome,
                   snapshot, askReplies>>
    /\ UNCHANGED <<chunkerVars, indexVars, setupVars>>

\* the steps of the call of p
CallStep(p) ==
    \/ EmbedTextReturn(p)
    \/ EmbedTextFail(p)
    \/ QueryReturn(p)
    \/ QueryFail(p)
    \/ GenerateReturn(p)
    \/ GenerateFail(p)

(***************************************************************************)
(* The RAG facade (rag-system.ts) and initializeIndex / waitForIndexReady  *)
(* (PineconeService and Indexer have the same code).                       *)
(***************************************************************************)
\* the defaults of the RAG constructor
DefaultChunkSize == 1000
DefaultChunkOverlap == 200
RagDefaultTopK == 5

\* value || fallback on an optional number: undefined and 0 are falsy
OrDefault(value, fallback) ==
    IF value.def /\ value.val # 0 THEN value.val ELSE fallback

NoConfig == [chunkSize |-> Undefined, chunkOverlap |-> Undefined,
             topK |-> Undefined]

\* waitForIndexReady(maxWaitTime = 60000); setTimeout(resolve, 1000)
MaxWaitTime == 60000
PollInterval == 1000

\* new Error('Index initialization timeout')
TimeoutError == "Index initialization timeout"

\* mutant: the catch block of initializeIndex throws an error of its own
Caught_Generic(error) == "Error initializing index"

\* catch (error) { console.error(...); throw error; }
Caught(error) == error

\* while (Date.now() - startTime < maxWaitTime)
StillWaiting(sinceStart) == sinceStart < MaxWaitTime

\* the time a describeIndexStats request takes, in ms
CheckDurations == {k * PollInterval : k \in 0..MaxCheckTicks}

\* the facade is not used, no initializeIndex call was made and the index
\* does not exist
FacadeIdle ==
    /\ config = NoConfig
    /\ rpc = "none"
    /\ thisTopK = DefaultTopK

NoInitializeCall ==
    /\ creates = 0
    /\ xpc = [p \in Procs |-> "idle"]
    /\ elapsed = [p \in Procs |-> 0]
    /\ nchecks = [p \in Procs |-> 0]
    /\ listed = [p \in Procs |-> "none"]
    /\ answered = [p \in Procs |-> "none"]
    /\ xout = [p \in Procs |-> [status |-> "none"]]
    /\ ninit = 0

SetupIdle ==
    /\ FacadeIdle
    /\ NoInitializeCall
    /\ indexExists = FALSE

\* new RAG(config)
RagConstruct ==
    /\ rpc = "new"
    /\ chunkSize' = OrDefault(config.chunkSize, DefaultChunkSize)
    /\ chunkOverlap' = OrDefault(config.chunkOverlap, DefaultChunkOverlap)
    /\ thisTopK' = OrDefault(config.topK, RagDefaultTopK)
    /\ rpc' = "ready"
    /\ UNCHANGED <<docs, pc, di, startIndex, chunkIndex, chunks, allChunks,
                   windows, returned>>
    /\ UNCHANGED <<config, indexExists, creates, xpc, elapsed, nchecks, listed,
                   answered, xout, ninit>>
    /\ UNCHANGED <<indexVars, convVars>>

\* rag.addDocuments(documents): processAndChunk starts
RagAddDocuments ==
    /\ rpc = "ready"
    /\ pc = "idle"
    /\ ncalls = 0
    /\ pc' = "process"
    /\ UNCHANGED <<docs, chunkSize, chunkOverlap, di, startIndex, chunkIndex,
                   chunks, allChunks, windows, returned>>
    /\ UNCHANGED <<indexVars, convVars, setupVars>>

\* rag.indexChunks(chunks): await this.indexer.indexDocuments(chunks)
RagIndexChunks(lists) ==
    /\ rpc = "ready"
    /\ pc = "idle"
    /\ ipc = "idle"
    /\ ncalls = 0
    /\ toIndex' \in lists
    /\ ipc' = "call"
    /\ UNCHANGED <<embI, allEmbeddings, vectors, upI, pending, remote, ilog,
                   iresult>>
    /\ UNCHANGED <<chunkerVars, convVars, setupVars>>

\* rag.deleteDocuments(ids): await this.indexer.deleteDocuments(ids)
RagDeleteDocuments(idLists) ==
    /\ rpc = "ready"
    /\ pc = "idle"
    /\ ncalls = 0
    /\ \E ids \in idLists : DeleteDocumentsIssue(ids)

\* rag.deleteAll(): await this.indexer.deleteAll()
RagDeleteAll ==
    /\ rpc = "ready"
    /\ pc = "idle"
    /\ ncalls = 0
    /\ DeleteAllIssue

\* rag.ask(question, conversationId): no k is passed on
RagAsk(p, qs, ids) ==
    /\ rpc = "ready"
    /\ pc = "idle"
    /\ ncalls = 0
    /\ Ask(p, qs, ids, {Undefined})

\* rag.search(queryText, topK)
RagSearch(p, qs, ks) ==
    /\ rpc = "ready"
    /\ pc = "idle"
    /\ ncalls = 0
    /\ Search(p, qs, ks)

\* the outcome of an initializeIndex call that is left
InitializeIndexLeft(p, position, result) ==
    /\ xpc' = [xpc EXCEPT ![p] = position]
    /\ xout' = [xout EXCEPT ![p] = result]

\* initializeIndex(dimension): await this.pinecone.listIndexes()
InitializeIndexEnter(p) ==
    /\ xpc[p] \in {"idle", "done", "failed"}
    /\ ninit < MaxInitCalls
    /\ ninit' = ninit + 1
    /\ xpc' = [xpc EXCEPT ![p] = "list"]
    /\ xout' = [xout EXCEPT ![p] = [status |-> "pending"]]
    /\ elapsed' = [elapsed EXCEPT ![p] = 0]
    /\ nchecks' = [nchecks EXCEPT ![p] = 0]
    /\ listed' = [listed EXCEPT ![p] = "none"]
    /\ answered' = [answered EXCEPT ![p] = "none"]
    /\ UNCHANGED <<config, rpc, thisTopK, indexExists, creates>>
    /\ UNCHANGED <<chunkerVars, indexVars, convVars>>

\* listIndexes answers: the call returns when the index is listed, else it
\* issues createIndex
ListIndexesReturn(p) ==
    /\ xpc[p] = "list"
    /\ listed' = [listed EXCEPT ![p] = IF indexExists THEN "exists" ELSE "missing"]
    /\ IF indexExists
       THEN /\ InitializeIndexLeft(p, "done", [status |-> "ok"])
            /\ creates' = creates
       ELSE /\ xpc' = [xpc EXCEPT ![p] = "create"]
            /\ creates' = creates + 1
            /\ xout' = xout
    /\ UNCHANGED <<config, rpc, thisTopK, indexExists, elapsed, nchecks,
                   answered, ninit>>
    /\ UNCHANGED <<chunkerVars, indexVars, convVars>>

\* listIndexes throws
ListIndexesFail(p) ==
    /\ xpc[p] = "list"
    /\ \E e \in Errors : InitializeIndexLeft(p, "failed", Thrown(Caught(e)))
    /\ UNCHANGED <<config, rpc, thisTopK, indexExists, creates, elapsed,
                   nchecks, listed, answered, ninit>>
    /\ UNCHANGED <<chunkerVars, indexVars, convVars>>

\* createIndex is accepted (the service has no index of that name):
\* waitForIndexReady starts, startTime = Date.now(), and the first
\* describeIndexStats request is issued
CreateIndexReturn(p) ==
    /\ xpc[p] = "create"
    /\ ~indexExists
    /\ indexExists' = TRUE
    /\ elapsed' = [elapsed EXCEPT ![p] = 0]
    /\ xpc' = [xpc EXCEPT ![p] = "check"]
    /\ UNCHANGED <<config, rpc, thisTopK, creates, nchecks, listed, answered,
                   xout, ninit>>
    /\ UNCHANGED <<chunkerVars, indexVars, convVars>>

\* createIndex throws (for one, because the index exists by now)
CreateIndexFail(p) ==
    /\ xpc[p] = "create"
    /\ \E e \in Errors : InitializeIndexLeft(p, "failed", Thrown(Caught(e)))
    /\ UNCHANGED <<config, rpc, thisTopK, indexExists, creates, elapsed,
                   nchecks, listed, answered, ninit>>
    /\ UNCHANGED <<chunkerVars, indexVars, convVars>>

\* describeIndexStats answers after d ms with stats (return), with a falsy
\* value or by throwing (both: the sleep starts)
DescribeReturn(p, durations) ==
    /\ xpc[p] = "check"
    /\ \E d \in durations, answer \in {"stats", "falsy", "throws"} :
          /\ answered' = [answered EXCEPT ![p] = answer]
          /\ elapsed' = [elapsed EXCEPT ![p] = @ + d]
          /\ nchecks' = [nchecks EXCEPT ![p] = @ + 1]
          /\ IF answer = "stats"
             THEN InitializeIndexLeft(p, "done", [status |-> "ok"])
             ELSE /\ xpc' = [xpc EXCEPT ![p] = "sleep"]
                  /\ xout' = xout
    /\ UNCHANGED <<config, rpc, thisTopK, indexExists, creates, listed, ninit>>
    /\ UNCHANGED <<chunkerVars, indexVars, convVars>>

\* the timer fires after the interval: the loop test is made again and
\* either the next request is issued or the timeout error is thrown, which
\* the catch block of initializeIndex throws on
SleepReturn(p) ==
    /\ xpc[p] = "sleep"
    /\ elapsed' = [elapsed EXCEPT ![p] = @ + PollInterval]
    /\ IF StillWaiting(elapsed'[p])
       THEN /\ xpc' = [xpc EXCEPT ![p] = "check"]
            /\ xout' = xout
       ELSE InitializeIndexLeft(p, "failed", Thrown(Caught(TimeoutError)))
    /\ UNCHANGED <<config, rpc, thisTopK, indexExists, creates, nchecks,
                   listed, answered, ninit>>
    /\ UNCHANGED <<chunkerVars, indexVars, convVars>>

\* the steps of the initializeIndex call of p
InitializeIndexStep(p, durations) ==
    \/ ListIndexesReturn(p)
    \/ ListIndexesFail(p)
    \/ CreateIndexReturn(p)
    \/ CreateIndexFail(p)
    \/ DescribeReturn(p, durations)
    \/ SleepReturn(p)

(***************************************************************************)
(* Specifications.                                                         *)
(***************************************************************************)
Document(id, content, metadata) ==
    [id |-> id, content |-> content, metadata |-> metadata]

InitLocals ==
    /\ di = 1
    /\ startIndex = 0
    /\ chunkIndex = 0
    /\ chunks = <<>>
    /\ allChunks = <<>>
    /\ windows = <<>>
    /\ returned = <<>>

\* Spec: chunkDocument on one document of any content over ChunkAlphabet
\* (called through chunkDocuments([document])).
Init ==
    /\ docs \in {<<Document("d1", c, "m1")>> : c \in Texts(ChunkAlphabet, MaxLen)}
    /\ chunkSize \in 1..MaxChunkSize
    /\ chunkOverlap \in 0..MaxOverlap
    /\ pc = "forEach"
    /\ InitLocals
    /\ IndexIdle
    /\ ConvIdle
    /\ SetupIdle

Next ==
    \/ ChunkDocumentEnter
    \/ ChunkLoop
    \/ ChunkDocumentReturn
    \/ ChunkDocumentsReturn

Spec == Init /\ [][Next]_vars

\* SpecClean: processDocuments on one document of raw text over
\* CleanAlphabet.
InitClean ==
    /\ docs \in {<<Document("d1", c, m)>> :
                    c \in Texts(CleanAlphabet, MaxRawLen), m \in {"m1", "m2"}}
    /\ chunkSize = 1
    /\ chunkOverlap = 0
    /\ pc = "process"
    /\ InitLocals
    /\ IndexIdle
    /\ ConvIdle
    /\ SetupIdle

NextClean == ProcessDocuments

SpecClean == InitClean /\ [][NextClean]_vars

\* SpecBatch: chunkDocuments (pc = "forEach") or processAndChunk
\* (pc = "process") on a list of documents.
BatchIds == <<"d1", "d2", "d3", "d4">>

InitBatch ==
    /\ \E n \in 0..MaxDocs :
          docs \in {[i \in 1..n |-> Document(BatchIds[i], cs[i], "m1")] :
                       cs \in [1..n -> Texts(BatchAlphabet, MaxDocLen)]}
    /\ chunkSize \in 1..MaxDocLen
    /\ chunkOverlap \in 0..MaxBatchOverlap
    /\ pc \in {"process", "forEach"}
    /\ InitLocals
    /\ IndexIdle
    /\ ConvIdle
    /\ SetupIdle

NextBatch ==
    \/ ProcessDocuments
    \/ Next

SpecBatch == InitBatch /\ [][NextBatch]_vars

(***************************************************************************)
(* Properties of chunkDocument (Spec: one document, docs[1]).              *)
(***************************************************************************)
Content1 == docs[1].content

\* the configurations the specification of the chunker allows
ValidConfig == chunkSize > 0 /\ 0 <= chunkOverlap /\ chunkOverlap < chunkSize

\* C1: for chunkSize > 0 and 0 <= overlap < chunkSize, chunkDocument
\* terminates.  The content and the configuration do not change during the
\* loop, so the cursor at the head of an iteration decides every later
\* iteration: a run that terminates is never twice at the same cursor.
C1_ChunkDocumentTerminates ==
    ValidConfig =>
        \A i, j \in DOMAIN windows :
            i < j => windows[i].start # windows[j].start

\* C2: a non-empty, normalized content shorter than chunkSize (overlap <
\* chunkSize) is chunked into exactly one chunk, whose content is the
\* document content.
C2_ShortContentOneChunk ==
    (/\ ValidConfig
     /\ Content1 # <<>>
     /\ Content1 = cleanText(Content1)
     /\ Len(Content1) < chunkSize)
    => /\ Len(chunks) <= 1
       /\ \A i \in DOMAIN chunks : chunks[i].content = Content1
       /\ pc = "done" => Len(allChunks) = 1

\* the sentence boundary found in the first window of the content
FirstBreakPoint ==
    LET first == substring(Content1, 0, Min(chunkSize, Len(Content1)))
    IN  Max(lastIndexOf(first, <<CharPeriod, CharSpace>>),
            lastIndexOf(first, <<CharNewline>>))

\* C3: content longer than chunkSize, first window snapped to a sentence
\* boundary at p past the midpoint, and the rest from p - overlap fits in one
\* window: exactly 2 chunks, the first ending right after the boundary, the
\* second from the advanced cursor to the end of the content.
C3_SentenceSnapTwoChunks ==
    LET p == FirstBreakPoint + 1
    IN  (/\ ValidConfig
         /\ Len(Content1) > chunkSize
         /\ 2 * FirstBreakPoint > chunkSize
         /\ Len(Content1) - (p - chunkOverlap) <= chunkSize)
        => /\ Len(chunks) <= 2
           /\ Len(chunks) >= 1 =>
                 chunks[1].content = trim(substring(Content1, 0, p))
           /\ Len(chunks) >= 2 =>
                 chunks[2].content =
                     trim(substring(Content1, p - chunkOverlap, Len(Content1)))
           /\ pc = "done" => Len(allChunks) = 2

\* C4: every emitted chunk, at every point of the loop, for every content,
\* chunkSize > 0 and overlap, has a content of at most chunkSize units.
C4_ChunkLengthBounded ==
    /\ \A i \in DOMAIN chunks : Len(chunks[i].content) <= chunkSize
    /\ \A i \in DOMAIN allChunks : Len(allChunks[i].content) <= chunkSize

C4_Witness ==
    /\ Len(chunks) >= 2
    /\ Len(Content1) > chunkSize
    /\ \E i \in DOMAIN chunks : Len(chunks[i].content) = chunkSize
    /\ \E i \in DOMAIN windows : windows[i].raw # windows[i].window

\* C5: the chunk at list position i (from 0) has chunkIndex i and the id
\* "<documentId>_chunk_<i>", so ids are pairwise different; for every prefix
\* of the emitted list.
C5_ChunkIdsSequential ==
    /\ \A i \in DOMAIN chunks :
          /\ chunks[i].chunkIndex = i - 1
          /\ chunks[i].id = docs[1].id \o "_chunk_" \o ToString(i - 1)
    /\ \A i, j \in DOMAIN chunks : i # j => chunks[i].id # chunks[j].id

C5_Witness == Len(chunks) >= 3 /\ chunks[3].id = "d1_chunk_2"

\* C6: in the list chunkDocument returns, totalChunks of every chunk is the
\* number of chunks returned.
C6_TotalChunksBackfilled ==
    \A k \in DOMAIN returned :
        \A i \in DOMAIN returned[k] :
            returned[k][i].metadata.totalChunks = Len(returned[k])

C6_Witness ==
    /\ pc = "done"
    /\ Len(returned) = 1
    /\ Len(returned[1]) >= 2
    /\ allChunks = returned[1]

\* the last n units of s / the first n units of s
Suffix(s, n) == SubSeq(s, Len(s) - n + 1, Len(s))
Prefix(s, n) == SubSeq(s, 1, n)

\* SpecOverlap: chunkDocument on one short document with an overlap of up
\* to MaxDeepOverlap, so that a window can be shorter than the overlap.
InitOverlap ==
    /\ docs \in {<<Document("d1", c, "m1")>> :
                    c \in Texts(ChunkAlphabet, MaxOverlapLen)}
    /\ chunkSize \in 1..MaxChunkSize
    /\ chunkOverlap \in 1..MaxDeepOverlap
    /\ pc = "forEach"
    /\ InitLocals
    /\ IndexIdle
    /\ ConvIdle
    /\ SetupIdle

SpecOverlap == InitOverlap /\ [][Next]_vars

\* C7: for any two consecutive chunks of a document, with
\* 0 < overlap < chunkSize, the next cursor is the previous cursor plus the
\* length of the emitted (trimmed) chunk content minus overlap, and the last
\* `overlap` units of the emitted chunk are the first `overlap` units of the
\* next window (so the shared region is not empty).
C7_AdvanceByEmittedLength ==
    (0 < chunkOverlap /\ chunkOverlap < chunkSize) =>
        \A i \in 1..(Len(windows) - 1) :
            /\ windows[i + 1].start =
                   windows[i].start + Len(chunks[i].content) - chunkOverlap
            /\ Len(chunks[i].content) >= chunkOverlap
            /\ Len(windows[i + 1].window) >= chunkOverlap
            /\ Suffix(chunks[i].content, chunkOverlap) =
                   Prefix(windows[i + 1].window, chunkOverlap)

\* the end of window i after it was cut (substring clamps a negative cursor
\* to 0)
CutEnd(i) == Max(0, windows[i].start) + Len(windows[i].raw)

\* the furthest such end reached so far
Furthest == IF windows = <<>> THEN 0 ELSE SetMax({CutEnd(i) : i \in DOMAIN windows})

\* the unit at position p of the content is in the content of chunk i, at
\* the place it has in the document
HoldsPosition(i, p) ==
    LET from == Max(0, windows[i].start) + LeadingTrimmed(windows[i].raw)
        text == chunks[i].content
    IN  /\ from <= p
        /\ p < from + Len(text)
        /\ text = SubSeq(Content1, from + 1, from + Len(text))

\* C8: at every point of the loop, every non-white-space unit of the content
\* before the furthest end of a (cut) window reached so far is in the content
\* of some emitted chunk.
C8_NoContentLost ==
    pc = "loop" =>
        \A p \in 0..(Furthest - 1) :
            ~IsWhiteSpace(Content1[p + 1]) =>
                \E i \in DOMAIN chunks : HoldsPosition(i, p)

\* a window cut before a space, a later window cut after a sentence
\* boundary, and a chunk after it
C8_Witness ==
    /\ pc = "loop"
    /\ Len(windows) >= 3
    /\ \E i, j \in DOMAIN windows :
          /\ i < j
          /\ j < Len(windows)
          /\ windows[i].raw # windows[i].window
          /\ windows[j].raw # windows[j].window
    /\ \E p \in 0..(Furthest - 1) : ~IsWhiteSpace(Content1[p + 1])

(***************************************************************************)
(* Properties of processDocument (SpecClean).                              *)
(***************************************************************************)
\* no two adjacent white space units, none at either end, no control
\* character
IsNormalized(s) ==
    /\ \A i \in DOMAIN s : ~IsControl(s[i])
    /\ \A i \in 1..(Len(s) - 1) : ~(IsWhiteSpace(s[i]) /\ IsWhiteSpace(s[i + 1]))
    /\ s # <<>> => ~IsWhiteSpace(s[1]) /\ ~IsWhiteSpace(s[Len(s)])

\* C9: the content processDocument returns is normalized, and id and
\* metadata are returned unchanged.
C9_ProcessedContentNormalized ==
    [][pc = "process" =>
          /\ Len(docs') = Len(docs)
          /\ \A i \in DOMAIN docs :
                /\ docs'[i].id = docs[i].id
                /\ docs'[i].metadata = docs[i].metadata
                /\ IsNormalized(docs'[i].content)]_vars

(***************************************************************************)
(* Properties of chunkDocuments / processAndChunk (SpecBatch).             *)
(***************************************************************************)
RECURSIVE Flatten(_)
Flatten(lists) ==
    IF lists = <<>> THEN <<>> ELSE Head(lists) \o Flatten(Tail(lists))

\* C10: the result is the concatenation, in document order, of the chunk
\* lists of the documents; every chunk names the document it was cut from
\* and the indices restart at 0 for each document.
C10_FlattenedInDocumentOrder ==
    /\ allChunks = Flatten(returned)
    /\ pc = "done" => Len(returned) = Len(docs)
    /\ \A k \in DOMAIN returned :
          \A i \in DOMAIN returned[k] :
              /\ returned[k][i].originalDocId = docs[k].id
              /\ returned[k][i].chunkIndex = i - 1
              /\ returned[k][i].id = ChunkId(docs[k].id, i - 1)

C10_Witness ==
    /\ pc = "done"
    /\ Len(docs) = 2
    /\ Len(returned[1]) >= 2
    /\ Len(returned[2]) >= 2
    /\ Len(allChunks) = Len(returned[1]) + Len(returned[2])
    /\ allChunks[1].originalDocId = "d1"
    /\ allChunks[1].content # <<>>
    /\ allChunks[Len(allChunks)].originalDocId = "d2"

(***************************************************************************)
(* Specifications of document ingestion.                                   *)
(***************************************************************************)
\* the chunker is not running
ChunkerIdle ==
    /\ docs = <<>>
    /\ chunkSize = 1
    /\ chunkOverlap = 0
    /\ pc = "done"
    /\ InitLocals

\* indexDocuments(documents) has just been called
IndexCalled(documents) ==
    /\ toIndex = documents
    /\ ipc = "call"
    /\ embI = 0
    /\ allEmbeddings = <<>>
    /\ vectors = <<>>
    /\ upI = 0
    /\ pending = NoRequest
    /\ remote = {}
    /\ ilog = <<>>
    /\ iresult = [status |-> "none"]

\* the k-th record of a list handed to indexDocuments
IndexRecord(k) == [id |-> k, content |-> k, metadata |-> "m"]

\* the longest list handed to Indexer.indexDocuments
MaxIndexChunks == 2

\* the record of id k when it is in the namespace before the operation
StoredRecord(k) == MakeVector(IndexRecord(k), <<"old", k>>)

\* the namespaces an operation may find: empty, or holding records 1 and 2
Namespaces == {{}, {StoredRecord(1), StoredRecord(2)}}

\* the documents given to indexDocument: one whose id is in the namespace
\* and one whose id is not
StoreDocuments == {IndexRecord(2), IndexRecord(7)}

\* the id lists given to deleteDocuments
IdLists == {<<1>>, <<2, 3>>}

\* SpecIndex: indexDocuments on a list of 0..MaxRecords records.
InitIndex ==
    /\ ChunkerIdle
    /\ ConvIdle
    /\ SetupIdle
    /\ \E n \in 0..MaxRecords : IndexCalled([k \in 1..n |-> IndexRecord(k)])

NextIndex == IndexDocuments

SpecIndex == InitIndex /\ [][NextIndex]_vars

\* RAG.addDocuments: const chunks = this.dataProcessor.processAndChunk(
\* documents); await this.indexer.indexDocuments(chunks)
AddDocumentsIndex ==
    /\ rpc = "ready"
    /\ pc = "done"
    /\ ipc = "idle"
    /\ toIndex' = allChunks
    /\ ipc' = "call"
    /\ UNCHANGED <<embI, allEmbeddings, vectors, upI, pending, remote, ilog,
                   iresult>>
    /\ UNCHANGED <<chunkerVars, convVars, setupVars>>

(***************************************************************************)
(* The ingestion of the advanced example: the documents are processed and  *)
(* chunked, the dimension is asked for (getDimension embeds the text       *)
(* 'test'), the index is initialized and only then the chunks are handed   *)
(* to indexDocuments.  A rejection of getDimension or of initializeIndex   *)
(* ends the flow before indexDocuments is called (ipc = "aborted").        *)
(***************************************************************************)
\* 'test'
TestText == <<116, 101, 115, 116>>

\* const dimension = await pineconeService.getDimension():
\* await this.embedText('test')
GetDimensionIssue ==
    /\ rpc = "none"
    /\ pc = "done"
    /\ ipc = "idle"
    /\ xpc["p1"] = "idle"
    /\ ipc' = "dimension"
    /\ pending' = [svc |-> "embed", texts |-> <<TestText>>]
    /\ ilog' = Append(ilog, [svc |-> "embed", from |-> 0,
                             items |-> <<TestText>>, status |-> "pending",
                             error |-> "none"])
    /\ UNCHANGED <<toIndex, embI, allEmbeddings, vectors, upI, remote,
                   iresult>>
    /\ UNCHANGED <<chunkerVars, convVars, setupVars>>

\* the request of getDimension is answered: embedText throws, or the
\* dimension is returned and initializeIndex(dimension) runs up to its
\* await this.pinecone.listIndexes()
\* (the flow is that of the example or, on a RAG, that of rag.initialize)
GetDimensionReturn ==
    /\ ipc = "dimension"
    /\ pending' = NoRequest
    /\ \E data \in EmbedAnswers(TestText) :
          IF EmbedTextThrows(data) = "none"
          THEN /\ ipc' = "init"
               /\ ilog' = Answered(ilog, "ok")
               /\ iresult' = iresult
               /\ ninit' = ninit + 1
               /\ xpc' = [xpc EXCEPT !["p1"] = "list"]
               /\ xout' = [xout EXCEPT !["p1"] = [status |-> "pending"]]
          ELSE /\ ipc' = "aborted"
               /\ ilog' = Answered(ilog, AnsweredWithout[EmbedTextThrows(data)])
               /\ iresult' = Thrown(EmbedTextThrows(data))
               /\ UNCHANGED <<ninit, xpc, xout>>
    /\ UNCHANGED <<toIndex, embI, allEmbeddings, vectors, upI, remote>>
    /\ UNCHANGED <<config, rpc, thisTopK, indexExists, creates, elapsed,
                   nchecks, listed, answered>>
    /\ UNCHANGED <<chunkerVars, convVars>>

\* the request of getDimension throws: the flow rejects
GetDimensionFail ==
    /\ ipc = "dimension"
    /\ \E e \in Errors :
          /\ iresult' = Thrown(e)
          /\ ilog' = Failed(ilog, e)
    /\ ipc' = "aborted"
    /\ pending' = NoRequest
    /\ UNCHANGED <<toIndex, embI, allEmbeddings, vectors, upI, remote>>
    /\ UNCHANGED <<chunkerVars, convVars, setupVars>>

\* await pineconeService.initializeIndex(dimension) rejected: the flow
\* rejects with the same error
InitializeIndexRejected ==
    /\ ipc = "init"
    /\ xpc["p1"] = "failed"
    /\ ipc' = "aborted"
    /\ iresult' = xout["p1"]
    /\ UNCHANGED <<toIndex, embI, allEmbeddings, vectors, upI, pending, remote,
                   ilog>>
    /\ UNCHANGED <<chunkerVars, convVars, setupVars>>

\* initializeIndex returned: await pineconeService.indexDocuments(chunks)
IndexChunksCall ==
    /\ ipc = "init"
    /\ xpc["p1"] = "done"
    /\ toIndex' = allChunks
    /\ ipc' = "call"
    /\ UNCHANGED <<embI, allEmbeddings, vectors, upI, pending, remote, ilog,
                   iresult>>
    /\ UNCHANGED <<chunkerVars, convVars, setupVars>>

\* SpecIngest: the documents of SpecBatch go through the flow, on a
\* service where the index exists or not; a readiness check takes the
\* whole waiting time, so that the wait ends with the first check or with
\* the timeout.
InitIngest ==
    /\ \E n \in 0..MaxDocs :
          docs \in {[i \in 1..n |-> Document(BatchIds[i], cs[i], "m1")] :
                       cs \in [1..n -> Texts(BatchAlphabet, MaxDocLen)]}
    /\ chunkSize \in 1..MaxDocLen
    /\ chunkOverlap \in 0..MaxBatchOverlap
    /\ pc \in {"process", "forEach"}
    /\ InitLocals
    /\ IndexIdle
    /\ ConvIdle
    /\ FacadeIdle
    /\ NoInitializeCall
    /\ indexExists \in BOOLEAN

NextIngest ==
    \/ NextBatch
    \/ GetDimensionIssue
    \/ GetDimensionReturn
    \/ GetDimensionFail
    \/ InitializeIndexStep("p1", {MaxWaitTime})
    \/ InitializeIndexRejected
    \/ IndexChunksCall
    \/ IndexDocuments

SpecIngest == InitIngest /\ [][NextIngest]_vars

(***************************************************************************)
(* Properties of document ingestion.                                       *)
(***************************************************************************)
\* the positions of the flow before indexDocuments has run
BeforeIndexDocuments == {"idle", "dimension", "init", "aborted", "call"}

\* the request of getDimension, answered: the only request of a flow that
\* has issued none for indexDocuments
DimensionRequest ==
    [svc |-> "embed", from |-> 0, items |-> <<TestText>>, status |-> "ok",
     error |-> "none"]

\* C11: empty input is a successful no-op: chunkDocument returns no chunk
\* for a document whose content is empty, and indexDocuments called with no
\* record returns normally without having issued an embedding or an upsert
\* request.
C11_EmptyInputIsNoOp ==
    /\ (pc = "loop" /\ docs[di].content = <<>>) => chunks = <<>>
    /\ \A k \in DOMAIN returned :
          docs[k].content = <<>> => returned[k] = <<>>
    /\ (ipc \notin BeforeIndexDocuments /\ toIndex = <<>>) =>
          /\ ipc = "done"
          /\ iresult = [status |-> "ok"]
          /\ ilog = <<DimensionRequest>>
          /\ pending = NoRequest
          /\ remote = {}

C11_Witness ==
    /\ Len(docs) = 2
    /\ \A k \in DOMAIN docs : docs[k].content = <<>>
    /\ returned = <<<<>>, <<>>>>
    /\ pc = "done"
    /\ ipc = "done"
    /\ ilog = <<DimensionRequest>>

\* the upsert requests issued so far, in the order of issue
Upserts == SelectSeq(ilog, LAMBDA e : e.svc = "upsert")

\* the ids of the records of the upsert requests, in the order of issue
UpsertedIds == Flatten([k \in 1..Len(Upserts) |-> Upserts[k].items])

\* the ids of the records of the upsert requests that were carried out
StoredIds ==
    Flatten([k \in 1..Len(Upserts) |->
                IF Upserts[k].status = "ok" THEN Upserts[k].items ELSE <<>>])

\* C20: indexDocuments upserts its records in batches of at most 100, one
\* at a time and in record order, every record in exactly one batch; when
\* the upsert of a batch fails the error reaches the caller, no later batch
\* is issued and the earlier batches remain in the index.
C20_UpsertBatchesInOrder ==
    /\ \A k \in 1..Len(Upserts) :
          /\ Len(Upserts[k].items) >= 1
          /\ Len(Upserts[k].items) <= UpsertBatchSize
          /\ k < Len(Upserts) => Upserts[k].status = "ok"
    /\ UpsertedIds = SubSeq(IdsOf(vectors), 1, Len(UpsertedIds))
    /\ Len(UpsertedIds) <= Len(vectors)
    /\ {r.id : r \in remote} = {StoredIds[k] : k \in 1..Len(StoredIds)}
    /\ (ipc = "done" /\ toIndex # <<>>) =>
          /\ UpsertedIds = IdsOf(toIndex)
          /\ StoredIds = UpsertedIds
    /\ (ipc = "failed" /\ Upserts # <<>>) =>
          /\ pending = NoRequest
          /\ Upserts[Len(Upserts)].status = "error"
          /\ iresult = [status |-> "error",
                        error |-> Upserts[Len(Upserts)].error]

C20_Witness ==
    /\ ipc = "failed"
    /\ Len(toIndex) > 2 * UpsertBatchSize
    /\ Len(Upserts) = 2
    /\ Upserts[1].status = "ok"
    /\ Upserts[2].status = "error"
    /\ Cardinality(remote) = UpsertBatchSize

(***************************************************************************)
(* Specifications of the Assistant.                                        *)
(***************************************************************************)
\* no call of the Assistant is awaiting an external service
Quiet == \A p \in Procs : ~InFlight(p)

InitConv ==
    /\ ChunkerIdle
    /\ IndexIdle
    /\ ConvIdle
    /\ SetupIdle

\* SpecConv: one caller; every call is awaited before the next operation
\* on the Assistant starts.
SeqKeys == {"", "A"}

NextConv ==
    \/ Quiet /\ Ask("p1", Questions, ConvIdArgs(SeqKeys), TopKArgs)
    \/ Quiet /\ AskWithHistory("p1", Questions, ConvIdArgs(SeqKeys), TopKArgs)
    \/ Quiet /\ Search("p1", Questions, TopKArgs)
    \/ CallStep("p1")
    \/ Quiet /\ \E id \in SeqKeys : ClearHistory(id)
    \/ Quiet /\ \E id \in SeqKeys : GetHistory(id)

SpecConv == InitConv /\ [][NextConv]_vars

\* SpecConc: two callers, each making one call with its own question, an
\* identifier and the configured k; the calls overlap in any way, and
\* clearHistory and getHistory are called at any time.
ConcKeys == {"A", "B"}

QuestionOf(p) == IF p = "p1" THEN "q1" ELSE "q2"

NextConc ==
    \/ \E p \in Procs :
          /\ cpc[p] = "idle"
          /\ Ask(p, {QuestionOf(p)}, {Some(k) : k \in ConcKeys}, {Undefined})
    \/ \E p \in Procs :
          /\ cpc[p] = "idle"
          /\ AskWithHistory(p, {QuestionOf(p)}, {Some(k) : k \in ConcKeys},
                            {Undefined})
    \/ \E p \in Procs : CallStep(p)
    \/ \E id \in ConcKeys : ClearHistory(id)
    \/ \E id \in ConcKeys : GetHistory(id)

SpecConc == InitConv /\ [][NextConc]_vars

\* SpecOps: a client that either hands a list of records to indexDocuments
\* or uses the Assistant as in SpecConv.
\* It may also call indexDocument, deleteDocuments or deleteAll on a
\* namespace that holds records, of a PineconeService (rpc = "none") or of
\* an Indexer (rpc = "ready"), or hand a short list to
\* Indexer.indexDocuments.
InitOps ==
    /\ ChunkerIdle
    /\ ConvIdle
    /\ config = NoConfig
    /\ thisTopK = DefaultTopK
    /\ NoInitializeCall
    /\ indexExists = FALSE
    /\ \/ /\ rpc = "none"
          /\ \E n \in 0..MaxRecords :
                IndexCalled([k \in 1..n |-> IndexRecord(k)])
       \/ /\ rpc = "ready"
          /\ \E n \in 0..MaxIndexChunks :
                IndexCalled([k \in 1..n |-> IndexRecord(k)])
       \/ /\ rpc \in {"none", "ready"}
          /\ \E ns \in Namespaces : IndexAt(ns)

\* indexDocument, deleteDocuments or deleteAll is called
StoreCall ==
    \/ \E document \in StoreDocuments : IndexDocumentIssue(document)
    \/ \E ids \in IdLists : DeleteDocumentsIssue(ids)
    \/ DeleteAllIssue

NextOps ==
    \/ ipc = "idle" /\ remote = {} /\ rpc = "none" /\ NextConv
    \/ IndexDocuments
    \/ EmbedderEmbedTexts
    \/ ncalls = 0 /\ StoreCall
    \/ StoreStep

SpecOps == InitOps /\ [][NextOps]_vars

(***************************************************************************)
(* Properties of the conversation store and of the Assistant.              *)
(***************************************************************************)
\* the call of p is an ask or askWithHistory call and no operation was
\* started after it
LatestCall(p) ==
    /\ call[p].op \in {"ask", "askWithHistory"}
    /\ call[p].seq = ncalls

\* the turns of h alternate user, assistant, ... and the assistant turns
\* are the replies, in order
Alternates(h, replies) ==
    /\ Len(h) = 2 * Len(replies)
    /\ \A i \in 1..Len(replies) :
          /\ h[2 * i - 1].role = "user"
          /\ h[2 * i] = Message("assistant", replies[i])

\* C12: from no stored history for an id, n successful ask calls with that
\* id, each awaited before the next starts, leave 2n turns that alternate
\* user, assistant, the i-th assistant turn being the reply of the i-th call.
C12_SequentialAsksAlternate ==
    \A k \in Keys :
        (Quiet /\ askReplies[k].valid) =>
            Alternates(getHistory(conversationHistory, k), askReplies[k].replies)

\* the same for the identifiers that are not the empty string
C12_NonEmptyIdAlternates ==
    \A k \in Keys \ {""} :
        (Quiet /\ askReplies[k].valid) =>
            Alternates(getHistory(conversationHistory, k), askReplies[k].replies)

C12_NonEmptyIdWitness ==
    /\ Quiet
    /\ askReplies["A"].valid
    /\ Len(askReplies["A"].replies) = 2
    /\ askReplies["A"].replies[1] # askReplies["A"].replies[2]

\* C13: an ask or askWithHistory call without a conversation identifier
\* neither reads nor writes the store: while it runs and when it is over
\* every history is what it was when the call started, and the request of
\* ask to the generation service carries no history.
C13_NoIdentifierIsStateless ==
    \A p \in Procs :
        (LatestCall(p) /\ ~call[p].conversationId.def) =>
            /\ conversationHistory = snapshot[p]
            /\ \A i \in 1..Len(trace[p]) :
                  (trace[p][i].svc = "generate" /\ call[p].op = "ask") =>
                      trace[p][i].arg.history = Undefined

C13_Witness ==
    /\ LatestCall("p1")
    /\ ~call["p1"].conversationId.def
    /\ cpc["p1"] = "returned"
    /\ conversationHistory["A"].def

\* C14: after a successful askWithHistory(question, messages, id) the
\* history stored for id is the system message with the context, then the
\* caller's messages, then the reply, whatever was stored before; the
\* caller's messages are as they were.
C14_AskWithHistoryReplaces ==
    \A p \in Procs :
        (/\ LatestCall(p)
         /\ call[p].op = "askWithHistory"
         /\ call[p].conversationId.def
         /\ cpc[p] = "returned") =>
            conversationHistory[call[p].conversationId.val] =
                Some(<<SystemMessage(Context(sources[p]))>>
                        \o call[p].messages
                        \o <<Message("assistant", outcome[p].answer)>>)

\* the same for the identifiers that are not the empty string
C14_NonEmptyIdReplaces ==
    \A p \in Procs :
        (/\ LatestCall(p)
         /\ call[p].op = "askWithHistory"
         /\ Truthy(call[p].conversationId)
         /\ cpc[p] = "returned") =>
            conversationHistory[call[p].conversationId.val] =
                Some(<<SystemMessage(Context(sources[p]))>>
                        \o call[p].messages
                        \o <<Message("assistant", outcome[p].answer)>>)

C14_NonEmptyIdWitness ==
    /\ LatestCall("p1")
    /\ call["p1"].op = "askWithHistory"
    /\ call["p1"].conversationId = Some("A")
    /\ cpc["p1"] = "returned"
    /\ snapshot["p1"]["A"].def
    /\ call["p1"].messages # <<>>

\* the request of the call of p that failed, if the call failed
FailedRequest(p) == trace[p][Len(trace[p])]

\* C15: when the generation call of ask or askWithHistory with an id fails,
\* the history stored for the id is what it was before the call.
C15_FailedGenerationKeepsHistory ==
    \A p \in Procs :
        (/\ LatestCall(p)
         /\ call[p].conversationId.def
         /\ cpc[p] = "failed"
         /\ FailedRequest(p).svc = "generate") =>
            conversationHistory[call[p].conversationId.val] =
                snapshot[p][call[p].conversationId.val]

\* this step is a step of an ask or askWithHistory call with identifier a,
\* or clearHistory(a), or getHistory(a)
OperationOn(a) ==
    \/ \E p \in Procs :
          /\ cpc'[p] # cpc[p]
          /\ call'[p].conversationId = Some(a)
    \/ /\ cpc' = cpc
       /\ ncalls' # ncalls
       /\ lastGet'.id = a

\* C16: for distinct identifiers A and B, no step of an ask, askWithHistory,
\* clearHistory or getHistory call on A, however the calls interleave,
\* changes the history stored for B.
C16_HistoriesIsolated ==
    [][\A a \in Keys, b \in Keys :
          (a # b /\ OperationOn(a)) =>
              conversationHistory'[b] = conversationHistory[b]]_vars

C16_Witness ==
    /\ conversationHistory["A"].def
    /\ conversationHistory["B"].def
    /\ cpc["p1"] = "generate"
    /\ cpc["p2"] = "generate"
    /\ call["p1"].conversationId = Some("A")
    /\ call["p2"].conversationId = Some("B")

\* C17: getHistory(id) returns the empty sequence when nothing is stored
\* for id, as for an identifier never used and right after clearHistory(id);
\* clearHistory(id) leaves nothing stored for id and changes nothing when
\* nothing was stored, so that clearing twice is clearing once.
C17_GetAndClearOnAbsent ==
    [][\A id \in Keys :
          /\ (GetHistory(id) /\ ~conversationHistory[id].def) =>
                lastGet'.result = <<>>
          /\ ClearHistory(id) =>
                /\ ~conversationHistory'[id].def
                /\ getHistory(conversationHistory', id) = <<>>
                /\ ~conversationHistory[id].def =>
                      conversationHistory' = conversationHistory]_vars

C17_Witness ==
    /\ ncalls = 2
    /\ lastGet = [op |-> "clearHistory", id |-> "A"]
    /\ call["p1"].op = "ask"
    /\ call["p1"].conversationId = Some("A")
    /\ cpc["p1"] = "returned"
    /\ ~conversationHistory["A"].def

\* the services the call of p has sent a request to, in the order of issue
Services(p) == [i \in 1..Len(trace[p]) |-> trace[p][i].svc]

\* C18: an ask or askWithHistory call sends one retrieval (the query is
\* embedded, then the index is queried with the caller's k, or with the
\* configured k when none is given) and then one generation request, each
\* request after the one before it has been answered; with any number of
\* matches, zero included, it returns the answer and the retrieved passages
\* in rank order, at most k of them.
C18_OneRetrievalThenOneGeneration ==
    \A p \in Procs :
        call[p].op \in {"ask", "askWithHistory"} =>
            /\ Services(p) = SubSeq(<<"embed", "query", "generate">>, 1,
                                    Len(trace[p]))
            /\ \A i \in 1..(Len(trace[p]) - 1) : trace[p][i].status = "ok"
            /\ (Len(trace[p]) >= 2 /\ ~call[p].topK.def) =>
                   trace[p][2].arg = DefaultTopK
            /\ (Len(trace[p]) >= 2 /\ call[p].topK.def /\ call[p].topK.val > 0) =>
                   trace[p][2].arg = call[p].topK.val
            /\ cpc[p] = "returned" =>
                   /\ Len(trace[p]) = 3
                   /\ trace[p][3].status = "ok"
                   /\ outcome[p].status = "ok"
                   /\ outcome[p].answer \in Replies
                   /\ Len(outcome[p].sources) <= trace[p][2].arg
                   /\ outcome[p].sources =
                         [k \in 1..Len(outcome[p].sources) |->
                             [id |-> Match(k).id,
                              score |-> IF Match(k).score.def
                                        THEN Match(k).score.val ELSE 0,
                              content |-> ContentOf(Match(k).metadata),
                              metadata |-> IF Match(k).metadata.def
                                           THEN Match(k).metadata.val
                                           ELSE [content |-> Undefined]]]

C18_Witness ==
    /\ call["p1"].op = "ask"
    /\ cpc["p1"] = "returned"
    /\ outcome["p1"].sources = <<>>
    /\ outcome["p1"].answer = "r1"
    /\ ~call["p1"].topK.def

\* two requests sent together by one Promise.all of Embedder.embedTexts
SentTogether(a, b) ==
    /\ a.svc = "embedContent"
    /\ b.svc = "embedContent"
    /\ a.from \div EmbedderBatchSize = b.from \div EmbedderBatchSize

\* the requests of the operation that threw
Thrower(i) == ilog[i].status = "error"

\* C19: in ask, askWithHistory, search, indexDocuments and indexDocument an
\* external call that fails is the last request of the operation (but for
\* the requests Embedder.embedTexts sent together with it), no request is
\* sent twice, and the operation fails with the error the call threw (the
\* error of one of them when several of the requests sent together threw).
C19_FailureSurfacesOnce ==
    /\ \A p \in Procs : \A i \in 1..Len(trace[p]) :
          /\ \A j \in 1..Len(trace[p]) :
                trace[p][i].svc = trace[p][j].svc => i = j
          /\ trace[p][i].status \in FailStatuses =>
                /\ i = Len(trace[p])
                /\ cpc[p] = "failed"
          /\ trace[p][i].status = "error" =>
                outcome[p] = [status |-> "error", error |-> trace[p][i].error]
    /\ \A i \in 1..Len(ilog) :
          /\ \A j \in 1..Len(ilog) :
                (ilog[i].svc = ilog[j].svc /\ ilog[i].from = ilog[j].from)
                    => i = j
          /\ ilog[i].status \in FailStatuses =>
                /\ \A j \in i + 1..Len(ilog) : SentTogether(ilog[i], ilog[j])
                /\ ipc = "failed"
                /\ pending.svc \in {"none", "embedContent"}
                /\ pending.svc = "embedContent" => ilog[i].svc = "embedContent"
          /\ Thrower(i) =>
                /\ iresult.status = "error"
                /\ \E j \in 1..Len(ilog) :
                      /\ Thrower(j)
                      /\ j # i => SentTogether(ilog[i], ilog[j])
                      /\ iresult.error = ilog[j].error
    /\ \A p \in Procs : cpc[p] = "failed" =>
          FailedRequest(p).status \in FailStatuses
    /\ ipc = "failed" => \E i \in 1..Len(ilog) : ilog[i].status \in FailStatuses

C19_Witness ==
    /\ call["p1"].op = "ask"
    /\ cpc["p1"] = "failed"
    /\ Services("p1") = <<"embed", "query">>
    /\ outcome["p1"] = [status |-> "error", error |-> "E2"]

(***************************************************************************)
(* SpecSnap: chunkDocument on contents long enough for a window in which   *)
(* a sentence boundary past the midpoint is followed by a later space, so  *)
(* that the two ways of cutting a window give different chunks.            *)
(***************************************************************************)
InitSnap ==
    /\ docs \in {<<Document("d1", c, "m1")>> :
                    c \in [1..MaxSnapLen -> ChunkAlphabet]}
    /\ chunkSize \in {MaxSnapLen - 2, MaxSnapLen - 1}
    /\ chunkOverlap = 0
    /\ pc = "forEach"
    /\ InitLocals
    /\ IndexIdle
    /\ ConvIdle
    /\ SetupIdle

SpecSnap == InitSnap /\ [][Next]_vars

\* the window of iteration i ends before the end of the content
\* (endIndex < content.length)
EndsBeforeContentEnd(i) == windows[i].start + chunkSize < Len(Content1)

\* the 0-based positions of window w at which ". " or a newline starts
SentenceBoundaries(w) ==
    {p \in 0..(Len(w) - 1) :
        \/ w[p + 1] = CharNewline
        \/ (p + 2 <= Len(w) /\ w[p + 1] = CharPeriod /\ w[p + 2] = CharSpace)}

\* the 0-based positions of the spaces of window w
Spaces(w) == {p \in 0..(Len(w) - 1) : w[p + 1] = CharSpace}

\* C23 as claimed: every window that ends before the end of the content and
\* has a sentence boundary (". " or newline) at a position at or after the
\* midpoint chunkSize/2 is cut right after the last such boundary, also
\* when that boundary lies exactly at the midpoint.
C23_SnapsAtOrAfterMidpoint ==
    \A i \in DOMAIN windows :
        LET w == windows[i].window
            B == {p \in SentenceBoundaries(w) : 2 * p >= chunkSize}
        IN  (EndsBeforeContentEnd(i) /\ B # {})
                => windows[i].raw = Prefix(w, SetMax(B) + 1)

\* C23 amended: every window that ends before the end of the content and
\* has a sentence boundary at a position strictly after the midpoint
\* (position > chunkSize/2) is cut right after the last such boundary,
\* whatever spaces follow it.
C23_SnapsPastMidpoint ==
    \A i \in DOMAIN windows :
        LET w == windows[i].window
            B == {p \in SentenceBoundaries(w) : 2 * p > chunkSize}
        IN  (EndsBeforeContentEnd(i) /\ B # {})
                => windows[i].raw = Prefix(w, SetMax(B) + 1)

\* a window with a sentence boundary past the midpoint and a space two or
\* more positions behind it: the cut is made after the boundary, where a cut
\* at the space would have kept more
C23_Witness ==
    /\ Len(windows) >= 1
    /\ EndsBeforeContentEnd(1)
    /\ LET w == windows[1].window
           B == {p \in SentenceBoundaries(w) : 2 * p > chunkSize}
       IN  /\ B # {}
           /\ \E s \in Spaces(w) : s > SetMax(B) + 1
           /\ windows[1].raw = Prefix(w, SetMax(B) + 1)
           /\ chunks[1].content = trim(windows[1].raw)

(***************************************************************************)
(* SpecWords: chunkDocument, without overlap, on contents of words that    *)
(* spaces and tabs separate.  The chunk sizes are odd, so that the         *)
(* positions at or after the midpoint are the positions past it and a word *)
(* is longer than half the chunk size exactly when it is at least that     *)
(* long: what C23 is about plays no part here.                             *)
(***************************************************************************)
InitWords ==
    /\ docs \in {<<Document("d1", c, "m1")>> :
                    c \in [1..MaxWordsLen -> WordAlphabet]}
    /\ chunkSize \in {k \in (MaxWordsLen - 3)..(MaxWordsLen - 1) : k % 2 = 1}
    /\ chunkOverlap = 0
    /\ pc = "forEach"
    /\ InitLocals
    /\ IndexIdle
    /\ ConvIdle
    /\ SetupIdle

SpecWords == InitWords /\ [][Next]_vars

\* the length of the word around the cut at position c of the content (c
\* units are before the cut): the units between the nearest white space
\* before the cut and the nearest one after it
WordLength(content, c) ==
    LET before == {p \in 0..(c - 1) : IsWhiteSpace(content[p + 1])}
        after == {p \in c..(Len(content) - 1) : IsWhiteSpace(content[p + 1])}
        first == IF before = {} THEN 0 ELSE SetMax(before) + 1
        last == IF after = {} THEN Len(content)
                ELSE CHOOSE p \in after : \A q \in after : p <= q
    IN  last - first

\* the cut after window i has a letter on both sides
CutsMidWord(i) ==
    LET c == CutEnd(i)
    IN  /\ 0 < c
        /\ c < Len(Content1)
        /\ Content1[c] = CharA
        /\ Content1[c + 1] = CharA

\* C24: a window that ends before the end of the content and has no
\* sentence boundary past the midpoint is cut at its last space at or after
\* the midpoint and kept whole only without such a space; consequently no
\* such chunk ends between two letters unless the word is longer than half
\* the chunk size.
C24_WordCutAtOrAfterMidpoint ==
    \A i \in DOMAIN windows :
        LET w == windows[i].window
            B == {p \in SentenceBoundaries(w) : 2 * p > chunkSize}
            S == {p \in Spaces(w) : 2 * p >= chunkSize}
        IN  EndsBeforeContentEnd(i) =>
                /\ (B = {} /\ S # {}) => windows[i].raw = Prefix(w, SetMax(S))
                /\ (B = {} /\ S = {}) => windows[i].raw = w
                /\ CutsMidWord(i)
                      => 2 * WordLength(Content1, CutEnd(i)) > chunkSize

\* C25: with chunkSize > 0 and 0 <= overlap < chunkSize every iteration of
\* the loop leaves the cursor strictly greater than it found it, for every
\* window, and the cursor is never negative.
C25_CursorStrictlyIncreases ==
    ValidConfig =>
        /\ \A i \in 1..(Len(windows) - 1) :
               windows[i + 1].start > windows[i].start
        /\ windows # <<>> => startIndex > windows[Len(windows)].start
        /\ startIndex >= 0

(***************************************************************************)
(* Calls that overlap on one conversation identifier (SpecConc).           *)
(***************************************************************************)
\* both callers made an ask call with identifier a
BothAsk(a) ==
    \A p \in Procs : call[p].op = "ask" /\ call[p].conversationId = Some(a)

\* the turns the ask call of p adds to the history
UserTurn(p) == Message("user", buildPrompt(call[p].question, Context(sources[p])))
AssistantTurn(p) == Message("assistant", outcome[p].answer)

\* the roles of the turns of h
Roles(h) == [i \in 1..Len(h) |-> h[i].role]

\* C22: nothing keeps two ask calls on one identifier apart: while both
\* await their generation request, started from no stored history and with
\* no other operation, the history holds the user turns of both calls and
\* no reply between them, whichever call came first; there is an
\* interleaving that ends with user, user, assistant, assistant and the
\* replies in the opposite order of the calls (the witness).
C22_AsksOverlapOnOneId ==
    \A a \in ConcKeys :
        (/\ BothAsk(a)
         /\ ncalls = 2
         /\ \A p \in Procs : cpc[p] = "generate")
        => /\ Roles(getHistory(conversationHistory, a)) = <<"user", "user">>
           /\ {getHistory(conversationHistory, a)[i] : i \in 1..2} =
                  {UserTurn(p) : p \in Procs}

C22_Witness ==
    /\ BothAsk("A")
    /\ ncalls = 2
    /\ call["p1"].seq = 1
    /\ \A p \in Procs : cpc[p] = "returned"
    /\ outcome["p1"].answer # outcome["p2"].answer
    /\ getHistory(conversationHistory, "A") =
          <<UserTurn("p1"), UserTurn("p2"), AssistantTurn("p2"), AssistantTurn("p1")>>

\* C26: when two ask calls on one identifier, started from no stored
\* history and with no other operation on the Assistant, have both returned
\* a reply, the history holds exactly 4 turns, the user turn and the
\* assistant turn of each call, the user turn of a call before its
\* assistant turn, however the calls overlapped.
C26_NoAppendLost ==
    \A a \in ConcKeys :
        (/\ BothAsk(a)
         /\ ncalls = 2
         /\ \A p \in Procs : cpc[p] = "returned")
        => LET h == getHistory(conversationHistory, a)
           IN  /\ Len(h) = 4
               /\ \E f \in [Procs -> 1..4], g \in [Procs -> 1..4] :
                      /\ \A p \in Procs :
                            /\ f[p] < g[p]
                            /\ h[f[p]] = UserTurn(p)
                            /\ h[g[p]] = AssistantTurn(p)
                      /\ {f[p] : p \in Procs} \cup {g[p] : p \in Procs} = 1..4

\* both calls awaited generation at the same time and both have returned
C26_Witness ==
    /\ BothAsk("A")
    /\ ncalls = 2
    /\ \A p \in Procs : cpc[p] = "returned"
    /\ Roles(getHistory(conversationHistory, "A")) =
          <<"user", "user", "assistant", "assistant">>
    /\ Len(askReplies["A"].replies) = 2

\* clearHistory(id) is the operation started last
ClearIsLatest(id) ==
    /\ lastGet = [op |-> "clearHistory", id |-> id]
    /\ \A p \in Procs : call[p].op # "none" => call[p].seq < ncalls

\* C27: after clearHistory(id), as long as no call is started, the history
\* of id is empty: a call on id that was in flight at the clear adds no
\* turn.
C27_ClearedStaysEmpty ==
    \A id \in Keys :
        ClearIsLatest(id) => getHistory(conversationHistory, id) = <<>>

(***************************************************************************)
(* Embedding and upserting within one indexDocuments call (SpecIndex).     *)
(***************************************************************************)
\* the embedding requests issued so far, in the order of issue
Embeds == SelectSeq(ilog, LAMBDA e : e.svc = "embed")

\* C29: in one indexDocuments call every embedding request is issued and
\* answered before the first upsert request; when an embedding request
\* fails no upsert request is issued and the index is as it was; the
\* embedding requests take the texts in order, at most EmbedBatchSize each.
C29_EmbedAllBeforeUpsert ==
    /\ ilog = Embeds \o Upserts
    /\ Upserts # <<>> =>
          /\ \A k \in 1..Len(Embeds) : Embeds[k].status = "ok"
          /\ Flatten([k \in 1..Len(Embeds) |-> Embeds[k].items]) =
                ContentsOf(toIndex)
    /\ (\E k \in 1..Len(Embeds) : Embeds[k].status \in FailStatuses) =>
          /\ Upserts = <<>>
          /\ remote = {}
          /\ ipc = "failed"
    /\ \A k \in 1..Len(Embeds) :
          /\ Embeds[k].from = (k - 1) * EmbedBatchSize
          /\ Len(Embeds[k].items) <= EmbedBatchSize
          /\ Embeds[k].items =
                SubSeq(ContentsOf(toIndex), Embeds[k].from + 1,
                       Embeds[k].from + Len(Embeds[k].items))
          /\ k < Len(Embeds) =>
                /\ Embeds[k].status = "ok"
                /\ Len(Embeds[k].items) = EmbedBatchSize

\* the second embedding request of a call with more than two batches of
\* texts failed: nothing was upserted
C29_Witness ==
    /\ Len(toIndex) > 2 * EmbedBatchSize
    /\ Len(Embeds) = 2
    /\ Embeds[1].status = "ok"
    /\ Embeds[2].status = "error"
    /\ ipc = "failed"
    /\ Upserts = <<>>
    /\ remote = {}

(***************************************************************************)
(* SpecSetup: one caller of initializeIndex, the index existing or not;    *)
(* SpecSetup2: two callers whose calls overlap in any way (readiness       *)
(* checks that take no time).                                              *)
(***************************************************************************)
InitSetup ==
    /\ ChunkerIdle
    /\ IndexIdle
    /\ ConvIdle
    /\ FacadeIdle
    /\ NoInitializeCall
    /\ indexExists \in BOOLEAN

NextSetup ==
    \/ InitializeIndexEnter("p1")
    \/ InitializeIndexStep("p1", CheckDurations)

SpecSetup == InitSetup /\ [][NextSetup]_vars

NextSetup2 ==
    \/ \E p \in Procs : InitializeIndexEnter(p)
    \/ \E p \in Procs : InitializeIndexStep(p, {0})

SpecSetup2 == InitSetup /\ [][NextSetup2]_vars

\* the most readiness checks one waitForIndexReady call can make
MaxChecks == MaxWaitTime \div PollInterval

\* C21: waitForIndexReady makes a bounded number of readiness checks, one
\* per interval at most; it goes on only after a check that did not report
\* the index ready and returns at the first check that did, which was issued
\* within the maximum wait; otherwise, once the maximum wait has passed, the
\* call of initializeIndex fails with 'Index initialization timeout' itself.
C21_PollEndsOrTimesOut ==
    \A p \in Procs :
        /\ nchecks[p] <= MaxChecks
        /\ elapsed[p] >= (nchecks[p] - 1) * PollInterval
        /\ xpc[p] = "check" =>
              /\ elapsed[p] >= nchecks[p] * PollInterval
              /\ elapsed[p] < MaxWaitTime
              /\ answered[p] # "stats"
        /\ xpc[p] = "sleep" => answered[p] \in {"falsy", "throws"}
        /\ (xpc[p] = "done" /\ listed[p] = "missing") =>
              /\ answered[p] = "stats"
              /\ nchecks[p] >= 1
              /\ xout[p] = [status |-> "ok"]
        /\ (xpc[p] = "failed" /\ nchecks[p] >= 1) =>
              /\ answered[p] \in {"falsy", "throws"}
              /\ elapsed[p] >= MaxWaitTime
              /\ xout[p] = Thrown(TimeoutError)
        /\ xout[p] = Thrown(TimeoutError) =>
              /\ xpc[p] = "failed"
              /\ nchecks[p] >= 1

\* the index never became ready: the call failed with the timeout error
\* after the most checks a wait can make
C21_Witness ==
    /\ xout["p1"] = Thrown(TimeoutError)
    /\ nchecks["p1"] = MaxChecks
    /\ elapsed["p1"] = MaxWaitTime

\* C30: over any sequence or interleaving of initializeIndex calls the
\* index is created once: never are two createIndex requests pending, none
\* is pending for an index that exists, and only a call that found the
\* index missing issues one; a call that finds the index neither creates
\* nor polls.
C30_AtMostOneCreate ==
    /\ Cardinality({p \in Procs : xpc[p] = "create"}) <= 1
    /\ \A p \in Procs :
          /\ xpc[p] = "create" => ~indexExists
          /\ listed[p] = "exists" => (xpc[p] = "done" /\ nchecks[p] = 0)
          /\ xpc[p] \in {"create", "check", "sleep"} => listed[p] = "missing"

(***************************************************************************)
(* The other operations of the RAG facade: initialize, getStats,           *)
(* clearHistory and getHistory.                                            *)
(***************************************************************************)
\* rag.initialize(): const dimension = await this.embedder.getDimension():
\* Embedder.embedText('test') runs up to its await model.embedContent(text)
RagInitialize ==
    /\ rpc = "ready"
    /\ pc = "idle"
    /\ ipc = "idle"
    /\ ncalls = 0
    /\ xpc["p1"] = "idle"
    /\ ipc' = "dimension"
    /\ pending' = [svc |-> "embedContent", texts |-> <<TestText>>]
    /\ ilog' = Append(ilog, [svc |-> "embedContent", from |-> 0,
                             items |-> <<TestText>>, status |-> "pending",
                             error |-> "none"])
    /\ UNCHANGED <<toIndex, embI, allEmbeddings, vectors, upI, remote,
                   iresult>>
    /\ UNCHANGED <<chunkerVars, convVars, setupVars>>

\* await this.indexer.initializeIndex(dimension) returned: initialize
\* resolves and the facade is there for the next operation
RagInitializeReturn ==
    /\ rpc = "ready"
    /\ ipc = "init"
    /\ xpc["p1"] = "done"
    /\ ipc' = "idle"
    /\ iresult' = xout["p1"]
    /\ UNCHANGED <<toIndex, embI, allEmbeddings, vectors, upI, pending, remote,
                   ilog>>
    /\ UNCHANGED <<chunkerVars, convVars, setupVars>>

\* rag.getStats(): await index.describeIndexStats()
RagGetStats ==
    /\ rpc = "ready"
    /\ pc = "idle"
    /\ ipc = "idle"
    /\ ncalls = 0
    /\ ipc' = "stats"
    /\ pending' = [svc |-> "describeIndexStats"]
    /\ UNCHANGED <<toIndex, vectors>>
    /\ FirstRequest("describeIndexStats", <<>>)

\* describeIndexStats answers: getStats returns the statistics of the
\* index, which change nothing
GetStatsReturn ==
    /\ ipc = "stats"
    /\ ipc' = "done"
    /\ iresult' = [status |-> "ok", recordCount |-> Cardinality(remote)]
    /\ pending' = NoRequest
    /\ ilog' = Answered(ilog, "ok")
    /\ UNCHANGED <<toIndex, embI, allEmbeddings, vectors, upI, remote>>
    /\ UNCHANGED <<chunkerVars, convVars, setupVars>>

\* rag.clearHistory(conversationId): this.assistant.clearHistory(...)
RagClearHistory(ids) ==
    /\ rpc = "ready"
    /\ pc = "idle"
    /\ \E id \in ids : ClearHistory(id)

\* rag.getHistory(conversationId): return this.assistant.getHistory(...)
RagGetHistory(ids) ==
    /\ rpc = "ready"
    /\ pc = "idle"
    /\ \E id \in ids : GetHistory(id)

(***************************************************************************)
(* SpecRag: a RAG facade is constructed with a configuration, on a service *)
(* where the index exists or not, and used: initialize, then or instead    *)
(* one of addDocuments on one document, indexChunks, deleteDocuments,      *)
(* deleteAll, getStats, ask and search; clearHistory and getHistory are    *)
(* called before or after an ask.                                          *)
(***************************************************************************)
ConfigValues == {Undefined} \cup {Some(v) : v \in 0..MaxConfigValue}

InitRag ==
    /\ docs \in {<<Document("d1", c, "m1")>> : c \in Texts(BatchAlphabet, MaxDocLen)}
    /\ chunkSize = DefaultChunkSize
    /\ chunkOverlap = DefaultChunkOverlap
    /\ pc = "idle"
    /\ InitLocals
    /\ \E ns \in Namespaces : IndexAt(ns)
    /\ ConvIdle
    /\ config \in [chunkSize : ConfigValues, chunkOverlap : ConfigValues,
                   topK : ConfigValues]
    /\ rpc = "new"
    /\ thisTopK = DefaultTopK
    /\ NoInitializeCall
    /\ indexExists \in BOOLEAN
    /\ remote # {} => indexExists

\* (addDocuments hands a list on only when it is empty, see C1; indexChunks
\* hands lists of 0..MaxIndexChunks chunks to Indexer.indexDocuments)
NextRag ==
    \/ RagConstruct
    \/ RagAddDocuments
    \/ NextBatch
    \/ AddDocumentsIndex
    \/ RagIndexChunks({[k \in 1..n |-> IndexRecord(k)] :
                          n \in 0..MaxIndexChunks})
    \/ IndexDocumentsEnter
    \/ EmbedderEmbedTexts
    \/ UpsertIssue
    \/ UpsertReturn
    \/ UpsertFail
    \/ RagDeleteDocuments(IdLists)
    \/ RagDeleteAll
    \/ DeleteDocumentsReturn
    \/ DeleteAllReturn
    \/ StoreRequestFail
    \/ RagInitialize
    \/ GetDimensionReturn
    \/ GetDimensionFail
    \/ InitializeIndexStep("p1", {MaxWaitTime})
    \/ InitializeIndexRejected
    \/ RagInitializeReturn
    \/ RagGetStats
    \/ GetStatsReturn
    \/ ipc = "idle" /\ RagAsk("p1", {"q1"}, {Some("A")})
    \/ ipc = "idle" /\ RagSearch("p1", {"q1"}, TopKArgs)
    \/ CallStep("p1")
    \/ ipc = "idle" /\ Quiet /\ RagClearHistory({"A"})
    \/ ipc = "idle" /\ Quiet /\ RagGetHistory({"A"})

SpecRag == InitRag /\ [][NextRag]_vars

\* the value an option has when the caller's value, if any, is used
Supplied(value, fallback) == IF value.def THEN value.val ELSE fallback

\* C28: a constructed RAG works with the chunkSize, chunkOverlap and topK
\* the caller supplied, 0 included, and with 1000, 200 and 5 only for an
\* omitted option; search asks the index for the k the caller passed, 0
\* included; configured with chunkOverlap = 0, consecutive windows of a
\* document do not overlap.
C28_SuppliedOptionsUsed ==
    rpc = "ready" =>
        /\ chunkSize = Supplied(config.chunkSize, DefaultChunkSize)
        /\ chunkOverlap = Supplied(config.chunkOverlap, DefaultChunkOverlap)
        /\ thisTopK = Supplied(config.topK, RagDefaultTopK)
        /\ \A p \in Procs :
              Len(trace[p]) >= 2 =>
                  trace[p][2].arg = Supplied(call[p].topK, thisTopK)
        /\ config.chunkOverlap = Some(0) =>
              \A i \in 1..(Len(windows) - 1) :
                  windows[i + 1].start = windows[i].start + Len(windows[i].raw)
====
